---- MODULE Spec2Model ----
(***************************************************************************)
(* personal-assistant-army: the agent composition (AgentFactory), the      *)
(* conversation session adapter (DatabaseSession), the chat handlers and   *)
(* the browser's stream reader, as state machines.                         *)
(*                                                                         *)
(* AgentFactory.createAgent is an async recursion; it is modelled with an  *)
(* explicit call stack, one frame per createAgentRecursive activation.     *)
(***************************************************************************)
EXTENDS Integers, Sequences, FiniteSets, TLC

VARIABLES
    handoffs,   \* table agent_handoffs: set of <<from_agent_id, to_agent_id>>
    phase,      \* position of the one build in flight: "idle", "building", "done"
    context,    \* context.id of the build in flight (0 when idle)
    rootSlug,   \* agentSlug given to createAgent ("" when idle)
    stack,      \* activations of createAgentRecursive, outermost first
    result,     \* what createAgent / getAgentConfig or the last handoff request settled with
    reads,      \* slugs passed to agentRepository.findBySlug by this build, in order
    skipped,    \* console.warn log of the build: skipped handoff slugs, skipped MCP references
    nextObj,    \* identity given to the next object made by `new Agent`
    maxDepth,   \* deepest call stack this build has had
    conversations, \* table conversations: id -> row
    messages,   \* table messages: set of rows
    nextId,     \* the SERIAL sequence of messages.id
    clock,      \* CURRENT_TIMESTAMP of the database
    lastOp,     \* the last DatabaseSession call: its arguments, what it saw, its outcome
    req,        \* the chat requests in flight: request slot -> locals of the handler
    defaultOpenAIKey, \* the key setDefaultOpenAIKey last stored, process-wide
    nextConv,   \* the SERIAL sequence of conversations.id
    served,     \* chat requests received so far
    agent_built_in_tools, \* table agent_built_in_tools: agent id -> set of tool types
    agent_mcp_tools,      \* table agent_mcp_tools: agent id -> mcp_server_id of its rows, in heap order
    mcp_servers,          \* table mcp_servers: ids of the rows it holds
    turn,       \* the DatabaseSession calls in flight: turn -> locals of the call
    journal,    \* ids of the messages rows in the order the INSERTs were executed
    reader      \* the browser's reader of one streamed response

buildVars == <<phase, context, rootSlug, stack, result, reads, skipped, nextObj, maxDepth>>
sessionVars == <<conversations, messages, nextId, clock, lastOp>>
chatVars == <<req, defaultOpenAIKey, nextConv, served>>
toolVars == <<agent_built_in_tools, agent_mcp_tools, mcp_servers>>
turnVars == <<turn, journal>>
restVars == <<toolVars, turnVars, reader>>
vars == <<handoffs, buildVars, sessionVars, chatVars, restVars>>

-----------------------------------------------------------------------------
(* Bounds of the model *)

\* most rows the agent_handoffs table holds
MaxEdges == 4
\* most rows ever inserted into the messages table
MaxInserts == 3
\* largest limit given to getItems
MaxLimit == 3

-----------------------------------------------------------------------------
(* The stored agents: slug is unique per owner (schema.sql UNIQUE(user_id,  *)
(* slug)), and two owners may use the same slug.                           *)

Users == {1, 2}

agents ==
    { [id |-> 1, user_id |-> 1, slug |-> "a", name |-> "Alpha"],
      [id |-> 2, user_id |-> 1, slug |-> "b", name |-> "Charlie"],
      [id |-> 3, user_id |-> 1, slug |-> "c", name |-> "Bravo"],
      [id |-> 4, user_id |-> 1, slug |-> "d", name |-> "Delta"],
      [id |-> 5, user_id |-> 2, slug |-> "a", name |-> "Echo"],
      [id |-> 6, user_id |-> 2, slug |-> "e", name |-> "Foxtrot"] }

\* slugs a request may carry; "z" is stored for nobody
Slugs == {"a", "b", "c", "d", "e", "z"}

AgentById(id) == CHOOSE a \in agents : a.id = id

NoAgent == [id |-> 0, user_id |-> 0, slug |-> "", name |-> ""]

\* collation rank of a name, for ORDER BY a.name
NameRank(n) ==
    CASE n = "Alpha" -> 1 [] n = "Bravo" -> 2 [] n = "Charlie" -> 3
      [] n = "Delta" -> 4 [] n = "Echo" -> 5 [] n = "Foxtrot" -> 6 [] OTHER -> 0

-----------------------------------------------------------------------------
(* PostgresAgentRepository *)

\* SELECT * FROM agents WHERE slug = ${slug}: the owner filter forgotten
findBySlugAnyOwner(userId, slug) ==
    LET hit == {a \in agents : a.slug = slug}
    IN IF hit = {} THEN NoAgent
       ELSE CHOOSE a \in hit : \A b \in hit : a.id >= b.id

\* SELECT * FROM agents WHERE user_id = ${userId} AND slug = ${slug}; result[0] || null
findBySlug(userId, slug) ==
    LET hit == {a \in agents : a.user_id = userId /\ a.slug = slug}
    IN IF hit = {} THEN NoAgent ELSE CHOOSE a \in hit : TRUE

RECURSIVE SortByName(_)
SortByName(S) ==
    IF S = {} THEN <<>>
    ELSE LET first == CHOOSE a \in S : \A b \in S : NameRank(a.name) <= NameRank(b.name)
         IN <<first>> \o SortByName(S \ {first})

\* SELECT a.* FROM agent_handoffs ah JOIN agents a ON ah.to_agent_id = a.id
\* WHERE ah.from_agent_id = ${fromAgentId} ORDER BY a.name
listHandoffs(fromAgentId) ==
    SortByName({AgentById(e[2]) : e \in {h \in handoffs : h[1] = fromAgentId}})

-----------------------------------------------------------------------------
(* agents handler: POST / DELETE /api/agents/:slug/handoffs *)

getAgentWithOwnership(userId, slug) ==
    LET agent == findBySlug(userId, slug)
    IN IF agent = NoAgent THEN [error |-> "Agent not found", agent |-> NoAgent]
       ELSE IF agent.user_id # userId THEN [error |-> "Forbidden", agent |-> NoAgent]
       ELSE [error |-> "", agent |-> agent]

\* the answer of a handoff request, kept where the answer of a build is
Answer(op, error) ==
    [op |-> op, status |-> IF error = "" THEN "ok" ELSE "error", error |-> error,
     agent |-> <<>>]

\* `if (result.agent!.id === toAgent.id)` in the handler and
\* CHECK (from_agent_id != to_agent_id) on the table
AcceptsSelfHandoff(fromId, toId) == FALSE
IsSelfHandoff(fromId, toId) == fromId = toId

\* The handler answers 404/400 and writes nothing unless both agents resolve
\* for the caller and differ; the INSERT is ON CONFLICT DO NOTHING.
AddHandoff(userId, slug, to_agent_slug) ==
    /\ phase = "idle"
    /\ LET r == getAgentWithOwnership(userId, slug)
           toAgent == findBySlug(userId, to_agent_slug)
           error == IF r.error # "" THEN r.error
                    ELSE IF toAgent = NoAgent THEN "Target agent not found"
                    ELSE IF IsSelfHandoff(r.agent.id, toAgent.id) THEN "Cannot handoff to self"
                    ELSE ""
       IN /\ handoffs' = IF error # "" THEN handoffs
                         ELSE handoffs \cup {<<r.agent.id, toAgent.id>>}
          /\ Cardinality(handoffs') <= MaxEdges
          /\ result' = Answer("addHandoff", error)
    /\ UNCHANGED <<phase, context, rootSlug, stack, reads, skipped, nextObj, maxDepth,
                   sessionVars, chatVars, restVars>>

RemoveHandoff(userId, slug, toAgentSlug) ==
    /\ phase = "idle"
    /\ LET r == getAgentWithOwnership(userId, slug)
           toAgent == findBySlug(userId, toAgentSlug)
           error == IF r.error # "" THEN r.error
                    ELSE IF toAgent = NoAgent THEN "Target agent not found"
                    ELSE ""
       IN /\ handoffs' = IF error # "" THEN handoffs
                         ELSE handoffs \ {<<r.agent.id, toAgent.id>>}
          /\ result' = Answer("removeHandoff", error)
    /\ UNCHANGED <<phase, context, rootSlug, stack, reads, skipped, nextObj, maxDepth,
                   sessionVars, chatVars, restVars>>

-----------------------------------------------------------------------------
(* The tool configuration of an agent and the MCP server registry *)

\* the rows the mcp_servers table starts with; created_at follows id
McpServers ==
    { [id |-> 1, user_id |-> 1, name |-> "S1"],
      [id |-> 2, user_id |-> 1, name |-> "S2"],
      [id |-> 3, user_id |-> 2, name |-> "S3"] }

\* mcp_server_id a request may carry; 9 is the id of no row
McpServerIds == {1, 2, 3, 9}

NoServer == [id |-> 0, user_id |-> 0, name |-> ""]

\* the seeded rows of built_in_tools, by type
BuiltInToolTypes == {"memory", "internet_search"}

\* tool_id / toolName a request may carry; "bogus" is the type of no row
ToolNames == {"internet_search", "memory", "bogus"}

\* SELECT * FROM mcp_servers WHERE id = ${id}
findMcpServerById(id) ==
    IF id \in mcp_servers THEN CHOOSE srv \in McpServers : srv.id = id ELSE NoServer

RECURSIVE SortByCreatedAtDesc(_)
SortByCreatedAtDesc(S) ==
    IF S = {} THEN <<>>
    ELSE LET first == CHOOSE srv \in S : \A o \in S : srv.id >= o.id
         IN <<first>> \o SortByCreatedAtDesc(S \ {first})

\* SELECT * FROM mcp_servers WHERE user_id = ${userId} ORDER BY created_at DESC
listByUser(userId) ==
    SortByCreatedAtDesc({srv \in McpServers : srv.id \in mcp_servers /\ srv.user_id = userId})

\* a list kept from the start of the process would miss every later edit
BuiltInToolsAtStart(agentId) == {}

\* SELECT bt.type FROM agent_built_in_tools abt JOIN built_in_tools bt ...
listBuiltInTools(agentId) == agent_built_in_tools[agentId]

\* SELECT mcp_server_id FROM agent_mcp_tools WHERE agent_id = ${agentId}
listMcpTools(agentId) == agent_mcp_tools[agentId]

Without(seq, x) == SelectSeq(seq, LAMBDA y : y # x)
Has(seq, x) == \E k \in 1..Len(seq) : seq[k] = x

\* POST /api/agents/:slug/tools/built-in: an unknown type makes the
\* repository throw (500), the INSERT is ON CONFLICT DO NOTHING
AddBuiltInTool(userId, slug, tool_id) ==
    /\ LET r == getAgentWithOwnership(userId, slug)
       IN agent_built_in_tools' =
            IF r.error # "" \/ tool_id \notin BuiltInToolTypes
            THEN agent_built_in_tools
            ELSE [agent_built_in_tools EXCEPT ![r.agent.id] = @ \cup {tool_id}]
    /\ UNCHANGED <<agent_mcp_tools, mcp_servers, turnVars, reader,
                   handoffs, buildVars, sessionVars, chatVars>>

\* DELETE /api/agents/:slug/tools/built-in/:toolName
RemoveBuiltInTool(userId, slug, toolName) ==
    /\ LET r == getAgentWithOwnership(userId, slug)
       IN agent_built_in_tools' =
            IF r.error # "" \/ toolName \notin BuiltInToolTypes
            THEN agent_built_in_tools
            ELSE [agent_built_in_tools EXCEPT ![r.agent.id] = @ \ {toolName}]
    /\ UNCHANGED <<agent_mcp_tools, mcp_servers, turnVars, reader,
                   handoffs, buildVars, sessionVars, chatVars>>

\* POST /api/agents/:slug/tools/mcp: the server must be a row of the caller;
\* the INSERT is ON CONFLICT DO NOTHING
AddMcpTool(userId, slug, mcp_server_id) ==
    /\ LET r == getAgentWithOwnership(userId, slug)
           mcpServer == findMcpServerById(mcp_server_id)
       IN agent_mcp_tools' =
            IF \/ r.error # ""
               \/ mcpServer = NoServer \/ mcpServer.user_id # userId
               \/ Has(agent_mcp_tools[r.agent.id], mcp_server_id)
            THEN agent_mcp_tools
            ELSE [agent_mcp_tools EXCEPT ![r.agent.id] = Append(@, mcp_server_id)]
    /\ UNCHANGED <<agent_built_in_tools, mcp_servers, turnVars, reader,
                   handoffs, buildVars, sessionVars, chatVars>>

\* DELETE /api/agents/:slug/tools/mcp/:mcpServerId
RemoveMcpTool(userId, slug, mcpServerId) ==
    /\ LET r == getAgentWithOwnership(userId, slug)
       IN agent_mcp_tools' =
            IF r.error # "" THEN agent_mcp_tools
            ELSE [agent_mcp_tools EXCEPT ![r.agent.id] = Without(@, mcpServerId)]
    /\ UNCHANGED <<agent_built_in_tools, mcp_servers, turnVars, reader,
                   handoffs, buildVars, sessionVars, chatVars>>

\* DELETE /api/mcp-servers/:id: 404 / 403 unless the row is the caller's;
\* agent_mcp_tools.mcp_server_id is ON DELETE CASCADE
RemoveMcpServer(userId, id) ==
    /\ LET server == findMcpServerById(id)
           deletes == server # NoServer /\ server.user_id = userId
       IN /\ mcp_servers' = IF deletes THEN mcp_servers \ {id} ELSE mcp_servers
          /\ agent_mcp_tools' =
                IF deletes THEN [a \in DOMAIN agent_mcp_tools |-> Without(agent_mcp_tools[a], id)]
                ELSE agent_mcp_tools
    /\ UNCHANGED <<agent_built_in_tools, turnVars, reader,
                   handoffs, buildVars, sessionVars, chatVars>>

-----------------------------------------------------------------------------
(* AgentFactory *)

NoResult == [op |-> "none", status |-> "none", error |-> "", agent |-> <<>>]

\* createAgent passes `new Set()`
SeededVisited(agentSlug) == {agentSlug}
InitialVisited(agentSlug) == {}

\* visitedAgents.has(agentSlug)
HasVisited(visitedAgents, agentSlug) == agentSlug \in visitedAgents

\* visitedAgents.add(agentSlug)
ForgetVisited(visitedAgents, agentSlug) == visitedAgents
\* an add that leaves out the first activation would not know the root
AddBelowRoot(visitedAgents, agentSlug) ==
    IF visitedAgents = {} THEN {""} ELSE visitedAgents \cup {agentSlug}
AddVisited(visitedAgents, agentSlug) == visitedAgents \cup {agentSlug}

RECURSIVE SlugsOfTrees(_)
SlugsOfTrees(ts) ==
    IF ts = <<>> THEN {}
    ELSE {Head(ts).slug} \cup SlugsOfTrees(Head(ts).handoffs) \cup SlugsOfTrees(Tail(ts))

\* `new Set(visitedAgents)`: the branch gets its own copy of the caller's set.
\* Passing visitedAgents itself would let the branch see what the sibling
\* branches already resolved added to it.
SharedVisited(frame) == frame.visitedAgents \cup SlugsOfTrees(frame.handoffs)
BranchVisited(frame) == frame.visitedAgents

\* the errors of lines 57-64, "" when the agent resolves
OwnerFirstError(agentData, contextId) ==
    IF agentData.user_id # contextId THEN "Unauthorized"
    ELSE IF agentData = NoAgent THEN "NotFound"
    ELSE ""
ResolveError(agentData, contextId) ==
    IF agentData = NoAgent THEN "NotFound"
    ELSE IF agentData.user_id # contextId THEN "Unauthorized"
    ELSE ""

\* the catch block of the handoff loop swallows every error of the branch
RethrowHandoffError(err) == FALSE
CatchesOnlyCycles(err) == err = "Circular"
CatchesHandoffError(err) == TRUE

\* `new Agent({name, instructions, model, tools, handoffs})`; obj is the
\* identity of the new object, slug and owner record the row it was made from
NewAgent(obj, agentData, tools, hs) ==
    [obj |-> obj, slug |-> agentData.slug, name |-> agentData.name,
     owner |-> agentData.user_id, tools |-> tools, handoffs |-> hs]

\* webSearchTool() and hostedMcpTool({serverUrl, serverLabel, ...})
WebSearchTool == [type |-> "web_search", serverLabel |-> ""]
HostedMcpTool(serverConfig) == [type |-> "hosted_mcp", serverLabel |-> serverConfig.name]

\* userMcpTools.find((server) => server.id === mcpTool)
FindServerConfig(userMcpTools, mcpTool) ==
    IF \E k \in 1..Len(userMcpTools) : userMcpTools[k].id = mcpTool
    THEN userMcpTools[CHOOSE k \in 1..Len(userMcpTools) : userMcpTools[k].id = mcpTool]
    ELSE NoServer

\* `if (!serverConfig) { console.warn(...); continue; }`
BindMissingServer(serverConfig) == <<HostedMcpTool(serverConfig)>>
SkipMissingServer(serverConfig) == <<>>

\* lines 106-122: the bindings of the references mcpTools, in order
RECURSIVE McpBindings(_, _)
McpBindings(mcpTools, userMcpTools) ==
    IF mcpTools = <<>> THEN <<>>
    ELSE LET serverConfig == FindServerConfig(userMcpTools, Head(mcpTools))
         IN (IF serverConfig = NoServer THEN SkipMissingServer(serverConfig)
             ELSE <<HostedMcpTool(serverConfig)>>)
            \o McpBindings(Tail(mcpTools), userMcpTools)

\* lines 108-113: one console.warn per reference without a server config
MissingServerWarnings(agentSlug, mcpTools, userMcpTools) ==
    LET missing == SelectSeq(mcpTools, LAMBDA id : FindServerConfig(userMcpTools, id) = NoServer)
    IN [k \in 1..Len(missing) |-> [slug |-> agentSlug, error |-> "McpServerNotFound"]]

\* lines 99-122: "memory" adds nothing (its tool is a TODO)
BuildTools(builtInTools, mcpTools, userMcpTools) ==
    (IF "internet_search" \in builtInTools THEN <<WebSearchTool>> ELSE <<>>)
        \o McpBindings(mcpTools, userMcpTools)

Frame(agentSlug, visitedAgents) ==
    [agentSlug |-> agentSlug, visitedAgents |-> visitedAgents, pc |-> "enter",
     agentData |-> NoAgent, builtInTools |-> {}, mcpTools |-> <<>>,
     handoffAgentData |-> <<>>, userMcpTools |-> <<>>, i |-> 1, handoffs |-> <<>>]

Top == stack[Len(stack)]
Pop == SubSeq(stack, 1, Len(stack) - 1)
SetTop(f) == [stack EXCEPT ![Len(stack)] = f]

\* createAgent(context, agentSlug): the first activation, with an empty set
CreateAgent(userId, agentSlug) ==
    /\ phase = "idle"
    /\ phase' = "building"
    /\ context' = userId
    /\ rootSlug' = agentSlug
    /\ stack' = <<Frame(agentSlug, InitialVisited(agentSlug))>>
    /\ result' = NoResult
    /\ reads' = <<>>
    /\ skipped' = <<>>
    /\ nextObj' = 1
    /\ maxDepth' = 1
    /\ UNCHANGED <<handoffs, sessionVars, chatVars, restVars>>

\* An activation throws `kind`: the caller's catch block logs and goes on to
\* its next handoff; with no caller (or a catch that rethrows) the error
\* travels to the promise of createAgent.
Throw(kind, newReads) ==
    LET caught == Len(stack) > 1 /\ CatchesHandoffError(kind)
    IN /\ reads' = newReads
       /\ IF caught
          THEN LET parent == stack[Len(stack) - 1]
               IN /\ stack' = [Pop EXCEPT ![Len(stack) - 1] = [parent EXCEPT !.i = parent.i + 1]]
                  /\ skipped' = Append(skipped, [slug |-> Top.agentSlug, error |-> kind])
                  /\ UNCHANGED <<phase, result>>
          ELSE /\ stack' = <<>>
               /\ phase' = "done"
               /\ result' = [op |-> "createAgent", status |-> "error", error |-> kind, agent |-> <<>>]
               /\ UNCHANGED skipped
       /\ UNCHANGED <<context, rootSlug, nextObj, maxDepth>>

\* createAgentRecursive lines 46-73: the cycle check, the lookup, the
\* ownership check, and the reads of the agent's configuration
Enter ==
    /\ phase = "building"
    /\ stack # <<>>
    /\ Top.pc = "enter"
    /\ IF HasVisited(Top.visitedAgents, Top.agentSlug)
       THEN Throw("Circular", reads)
       ELSE LET agentData == findBySlug(context, Top.agentSlug)
                err == ResolveError(agentData, context)
            IN IF err # ""
               THEN Throw(err, Append(reads, Top.agentSlug))
               ELSE /\ stack' = SetTop([Top EXCEPT
                                    !.visitedAgents = AddVisited(@, Top.agentSlug),
                                    !.pc = "registry",
                                    !.agentData = agentData,
                                    !.builtInTools = listBuiltInTools(agentData.id),
                                    !.mcpTools = listMcpTools(agentData.id),
                                    !.handoffAgentData = listHandoffs(agentData.id)])
                    /\ reads' = Append(reads, Top.agentSlug)
                    /\ UNCHANGED <<phase, context, rootSlug, result, skipped, nextObj, maxDepth>>
    /\ UNCHANGED <<handoffs, sessionVars, chatVars, restVars>>

\* an awaited repository call of lines 53-76 rejects (the connection to the
\* database is lost, a statement times out): the activation throws it
ReadFails ==
    /\ phase = "building"
    /\ stack # <<>>
    /\ \/ Top.pc = "enter" /\ ~HasVisited(Top.visitedAgents, Top.agentSlug)
       \/ Top.pc = "registry"
    /\ Throw("StoreError", IF Top.pc = "enter" THEN Append(reads, Top.agentSlug) ELSE reads)
    /\ UNCHANGED <<handoffs, sessionVars, chatVars, restVars>>

\* lines 74-77: the registry of the user is read after the agent's rows
ReadRegistry ==
    /\ phase = "building"
    /\ stack # <<>>
    /\ Top.pc = "registry"
    /\ stack' = SetTop([Top EXCEPT !.pc = "loop", !.userMcpTools = listByUser(context)])
    /\ UNCHANGED <<handoffs, phase, context, rootSlug, result, reads, skipped, nextObj, maxDepth,
                   sessionVars, chatVars, restVars>>

\* lines 81-87: the call for the next handoff target
Recurse ==
    /\ phase = "building"
    /\ stack # <<>>
    /\ Top.pc = "loop"
    /\ Top.i <= Len(Top.handoffAgentData)
    /\ stack' = Append(stack, Frame(Top.handoffAgentData[Top.i].slug, BranchVisited(Top)))
    /\ maxDepth' = IF Len(stack') > maxDepth THEN Len(stack') ELSE maxDepth
    /\ UNCHANGED <<handoffs, phase, context, rootSlug, result, reads, skipped, nextObj, sessionVars, chatVars, restVars>>

\* lines 99-148: the loop is over, the agent is made and returned; the
\* caller pushes it on its handoffs (line 88)
Return ==
    /\ phase = "building"
    /\ stack # <<>>
    /\ Top.pc = "loop"
    /\ Top.i > Len(Top.handoffAgentData)
    /\ LET agent == NewAgent(nextObj, Top.agentData,
                              BuildTools(Top.builtInTools, Top.mcpTools, Top.userMcpTools),
                              Top.handoffs)
       IN IF Len(stack) > 1
          THEN LET parent == stack[Len(stack) - 1]
               IN /\ stack' = [Pop EXCEPT ![Len(stack) - 1] =
                                  [parent EXCEPT !.i = parent.i + 1,
                                                 !.handoffs = Append(parent.handoffs, agent)]]
                  /\ UNCHANGED <<phase, result>>
          ELSE /\ stack' = <<>>
               /\ phase' = "done"
               /\ result' = [op |-> "createAgent", status |-> "ok", error |-> "", agent |-> <<agent>>]
    /\ skipped' = skipped \o MissingServerWarnings(Top.agentSlug, Top.mcpTools, Top.userMcpTools)
    /\ nextObj' = nextObj + 1
    /\ UNCHANGED <<handoffs, context, rootSlug, reads, maxDepth, sessionVars, chatVars, restVars>>

\* getAgentConfig(userId, agentSlug): lines 154-168
GetAgentConfig(userId, agentSlug) ==
    /\ phase = "idle"
    /\ LET agentData == findBySlug(userId, agentSlug)
           err == ResolveError(agentData, userId)
       IN result' = IF err # ""
                    THEN [op |-> "getAgentConfig", status |-> "error", error |-> err, agent |-> <<>>]
                    ELSE [op |-> "getAgentConfig", status |-> "ok", error |-> "", agent |-> <<agentData>>]
    /\ phase' = "done"
    /\ context' = userId
    /\ rootSlug' = agentSlug
    /\ UNCHANGED <<handoffs, stack, reads, skipped, nextObj, maxDepth, sessionVars, chatVars, restVars>>

\* the chat turn is over: the built agent is dropped, nothing is kept
Discard ==
    /\ phase = "done"
    /\ phase' = "idle"
    /\ context' = 0
    /\ rootSlug' = ""
    /\ result' = NoResult
    /\ reads' = <<>>
    /\ skipped' = <<>>
    /\ nextObj' = 1
    /\ maxDepth' = 0
    /\ UNCHANGED <<handoffs, stack, sessionVars, chatVars, restVars>>

-----------------------------------------------------------------------------
(* The messages table and the ConversationRepository *)

Conversations == {1, 2}

\* the conversation the DatabaseSession was constructed for
conversationId == 1

Null == [typeof |-> "null"]

\* JSON.stringify / JSON.parse: the text of a value is not the value
JsonStringify(v) == [json |-> v]
JsonParse(text) == text.json

\* What the driver hands back for the JSONB column raw_data: the parsed
\* object, or its JSON text
StoredRawData(raw_data, asText) ==
    IF raw_data = Null THEN Null
    ELSE IF asText THEN [typeof |-> "string", value |-> JsonStringify(raw_data)]
    ELSE [typeof |-> "object", value |-> raw_data]

\* ORDER BY created_at DESC would list the newest row first
RECURSIVE NewestFirst(_)
NewestFirst(S) ==
    IF S = {} THEN <<>>
    ELSE LET first == CHOOSE m \in S : \A o \in S : m.created_at >= o.created_at
         IN <<first>> \o NewestFirst(S \ {first})

RECURSIVE SortByCreatedAt(_)
SortByCreatedAt(S) ==
    IF S = {} THEN <<>>
    ELSE LET first == CHOOSE m \in S : \A o \in S : m.created_at <= o.created_at
         IN <<first>> \o SortByCreatedAt(S \ {first})

\* SELECT * FROM messages WHERE conversation_id = ${conversationId} ORDER BY created_at ASC
listMessagesIn(rows, convId) == SortByCreatedAt({m \in rows : m.conversation_id = convId})
listMessages(convId) == listMessagesIn(messages, convId)

\* INSERT INTO messages ... RETURNING *: the row of one addMessage call made
\* when the sequence stands at id and the database clock at now
MessageRow(data, id, now, asText) ==
    [id |-> id, conversation_id |-> data.conversation_id, role |-> data.role,
     content |-> data.content, raw_data |-> StoredRawData(data.raw_data, asText),
     agent_id |-> data.agent_id, created_at |-> now]

\* UPDATE conversations SET updated_at = CURRENT_TIMESTAMP WHERE id = ${data.conversation_id}
Touch(convId, now) == [conversations EXCEPT ![convId].updated_at = now]

\* DELETE FROM messages WHERE id = ${id}
deleteMessage(rows, id) == {m \in rows : m.id # id}

\* deleteAllMessages(conversationId)
deleteAllMessages(rows, convId) == {m \in rows : m.conversation_id # convId}

-----------------------------------------------------------------------------
(* AgentInputItem: the shapes the run hands to the session *)

Str(text) == [typeof |-> "string", value |-> text]
Arr(parts) == [typeof |-> "array", value |-> parts]

UserText == [type |-> "message", role |-> "user", content |-> Str("hi")]
UserParts ==
    [type |-> "message", role |-> "user",
     content |-> Arr(<< [type |-> "input_text", text |-> "see"],
                        [type |-> "input_image", image |-> "data:png"],
                        [type |-> "input_text", text |-> "this"] >>)]
AssistantText ==
    [type |-> "message", role |-> "assistant", status |-> "completed",
     content |-> Arr(<< [type |-> "output_text", text |-> "hello"] >>)]
ToolCall == [type |-> "hosted_tool_call", name |-> "web_search_call", status |-> "completed"]
HandoffCall ==
    [type |-> "function_call", name |-> "transfer_to_Bravo", callId |-> "call_1",
     arguments |-> "{}"]

Items == {UserText, UserParts, AssistantText, ToolCall, HandoffCall}

\* the item lists one addItems call may carry
ItemLists == {<<i>> : i \in Items} \cup {<<UserText, AssistantText>>, <<HandoffCall, ToolCall>>}

-----------------------------------------------------------------------------
(* DatabaseSession *)

IsTextPart(part) == part.type = "text" \/ part.type = "input_text"

\* .filter(text parts).map(part => part.text).join("\n")
RECURSIVE JoinText(_, _)
JoinText(parts, first) ==
    IF parts = <<>> THEN ""
    ELSE IF ~IsTextPart(Head(parts)) THEN JoinText(Tail(parts), first)
    ELSE (IF first THEN "" ELSE "\n") \o Head(parts).text \o JoinText(Tail(parts), FALSE)

\* addItems lines 120-137: the display text of an item
ContentText(item) ==
    IF "content" \in DOMAIN item
    THEN IF item.content.typeof = "string" THEN item.content.value
         ELSE IF item.content.typeof = "array" THEN JoinText(item.content.value, TRUE)
         ELSE ""
    ELSE IF "type" \in DOMAIN item /\ item.type = "hosted_tool_call"
         THEN "Tool call: " \o item.name
    ELSE ""

\* raw_data: item -- the full item structure is stored
DisplayOnly(item) ==
    [role |-> IF "role" \in DOMAIN item THEN item.role ELSE "assistant",
     content |-> Str(ContentText(item))]
RawDataOf(item) == item

\* the argument addItems gives to addMessage, lines 139-144
MessageData(item) ==
    [conversation_id |-> conversationId,
     role |-> IF "role" \in DOMAIN item THEN item.role ELSE "assistant",
     content |-> IF ContentText(item) # "" THEN ContentText(item) ELSE "[non-text content]",
     raw_data |-> RawDataOf(item),
     agent_id |-> 0]

\* messageToAgentInputItem, lines 179-189
SimpleStructure(msg) ==
    [ok |-> TRUE, item |-> [role |-> msg.role, content |-> Str(msg.content)]]
messageToAgentInputItem(msg) ==
    IF msg.raw_data # Null
    THEN IF msg.raw_data.typeof = "string"
         THEN [ok |-> TRUE, item |-> JsonParse(msg.raw_data.value)]
         ELSE [ok |-> TRUE, item |-> msg.raw_data.value]
    ELSE [ok |-> FALSE, error |-> "Unknown message role: " \o msg.role]

\* items.slice(-limit)
SliceLast(seq, n) ==
    IF n >= Len(seq) THEN seq ELSE SubSeq(seq, Len(seq) - n + 1, Len(seq))

NoLimit == [given |-> FALSE, value |-> 0]
Limit(n) == [given |-> TRUE, value |-> n]

\* limit !== undefined && limit > 0
AppliesLimit(limit) == limit.given /\ limit.value > 0

\* getItems lines 96-111, on the rows listMessages returned
getItems(rows, limit) ==
    LET converted == [k \in 1..Len(rows) |-> messageToAgentInputItem(rows[k])]
        failed == {k \in 1..Len(rows) : ~converted[k].ok}
        items == [k \in 1..Len(rows) |-> converted[k].item]
    IN IF failed # {}
       THEN [status |-> "error",
             error |-> converted[CHOOSE k \in failed : \A j \in failed : k <= j].error,
             items |-> <<>>]
       ELSE [status |-> "ok", error |-> "",
             items |-> IF AppliesLimit(limit) THEN SliceLast(items, limit.value) ELSE items]

GetItems(limit) ==
    /\ LET rows == listMessages(conversationId)
           r == getItems(rows, limit)
       IN lastOp' = [op |-> "getItems", limit |-> limit, before |-> rows,
                     status |-> r.status, error |-> r.error, items |-> r.items]
    /\ UNCHANGED <<conversations, messages, nextId, clock, handoffs, buildVars, chatVars, restVars>>

\* the rows a loop of addMessage calls inserts: each call is an INSERT and
\* an UPDATE of conversations.updated_at, two statements the database
\* stamps one after the other
RECURSIVE InsertAll(_, _, _, _)
InsertAll(datas, id, now, asText) ==
    IF datas = <<>> THEN {}
    ELSE {MessageRow(Head(datas), id, now, asText)}
             \cup InsertAll(Tail(datas), id + 1, now + 2, asText)

\* addItems lines 117-146
AddItems(items, asText) ==
    /\ nextId + Len(items) - 1 <= MaxInserts
    /\ messages' = messages \cup
            InsertAll([k \in 1..Len(items) |-> MessageData(items[k])], nextId, clock, asText)
    /\ nextId' = nextId + Len(items)
    /\ clock' = clock + 2 * Len(items)
    /\ conversations' = Touch(conversationId, clock + 2 * Len(items) - 1)
    /\ lastOp' = [op |-> "addItems", items |-> items, before |-> listMessages(conversationId),
                  status |-> "ok"]
    /\ UNCHANGED <<handoffs, restVars, buildVars, chatVars, restVars>>

\* popItem lines 151-169: the row is deleted before it is converted
PopItem ==
    /\ LET rows == listMessages(conversationId)
       IN IF Len(rows) = 0
          THEN /\ lastOp' = [op |-> "popItem", before |-> rows, status |-> "ok",
                             returned |-> <<>>]
               /\ UNCHANGED messages
          ELSE LET lastMessage == rows[Len(rows)]
                   r == messageToAgentInputItem(lastMessage)
               IN /\ messages' = deleteMessage(messages, lastMessage.id)
                  /\ lastOp' = [op |-> "popItem", before |-> rows,
                                status |-> IF r.ok THEN "ok" ELSE "error",
                                returned |-> IF r.ok THEN <<r.item>> ELSE <<>>]
    /\ UNCHANGED <<conversations, nextId, clock, handoffs, buildVars, chatVars, restVars>>

\* clearSession lines 174-176
ClearSession ==
    /\ messages' = deleteAllMessages(messages, conversationId)
    /\ lastOp' = [op |-> "clearSession", before |-> listMessages(conversationId),
                  status |-> "ok"]
    /\ UNCHANGED <<conversations, nextId, clock, handoffs, buildVars, chatVars, restVars>>

\* sendMessage (the non-streaming chat operation) saves the user message and
\* the assistant response with role and content alone: no raw_data
SaveMessage(convId, role) ==
    /\ nextId <= MaxInserts
    /\ messages' = messages \cup
            { MessageRow([conversation_id |-> convId, role |-> role,
                          content |-> IF role = "user" THEN "hi" ELSE "hello",
                          raw_data |-> Null,
                          agent_id |-> IF role = "user" THEN 0 ELSE 1],
                         nextId, clock, FALSE) }
    /\ nextId' = nextId + 1
    /\ clock' = clock + 2
    /\ conversations' = Touch(convId, clock + 1)
    /\ lastOp' = [op |-> "addMessage", before |-> listMessages(conversationId),
                  status |-> "ok"]
    /\ UNCHANGED <<handoffs, restVars, buildVars, chatVars, restVars>>

Limits == {NoLimit} \cup {Limit(n) : n \in (-1)..MaxLimit}

NextSession ==
    \/ \E items \in ItemLists, asText \in BOOLEAN : AddItems(items, asText)
    \/ \E limit \in Limits : GetItems(limit)
    \/ PopItem
    \/ ClearSession
    \/ \E c \in Conversations, role \in {"user", "assistant"} : SaveMessage(c, role)

-----------------------------------------------------------------------------
(* DatabaseSession calls of concurrent turns on one conversation: every    *)
(* await of a repository call is a point where another turn's call runs.   *)

Turns == {1, 2}

\* the item lists the concurrent turns append
TurnItemLists == {<<UserText, AssistantText>>, <<ToolCall>>, <<HandoffCall>>}

NoCall == [op |-> "none", pc |-> "settled"]

Ids(rows) == [k \in 1..Len(rows) |-> rows[k].id]

\* addItems is called: the loop of lines 118-145 has inserted nothing yet
CallAddItems(t, items) ==
    /\ turn[t].pc = "settled"
    /\ nextId <= MaxInserts
    /\ turn' = [turn EXCEPT ![t] = [op |-> "addItems", pc |-> "loop", items |-> items,
                                    i |-> 1, ids |-> <<>>]]
    /\ UNCHANGED <<journal, toolVars, reader, handoffs, buildVars, sessionVars, chatVars>>

\* one iteration of the loop: `await this.conversationRepository.addMessage(...)`
AddMessage(t) ==
    /\ turn[t].op = "addItems" /\ turn[t].pc = "loop"
    /\ nextId <= MaxInserts
    /\ LET c == turn[t]
       IN /\ messages' = messages \cup {MessageRow(MessageData(c.items[c.i]), nextId, clock, FALSE)}
          /\ turn' = [turn EXCEPT ![t] = [c EXCEPT !.i = c.i + 1,
                                                   !.ids = Append(c.ids, nextId),
                                                   !.pc = IF c.i = Len(c.items) THEN "settled"
                                                          ELSE "loop"]]
    /\ journal' = Append(journal, nextId)
    /\ nextId' = nextId + 1
    /\ clock' = clock + 2
    /\ conversations' = Touch(conversationId, clock + 1)
    /\ UNCHANGED <<lastOp, toolVars, reader, handoffs, buildVars, chatVars>>

\* popItem lines 152-163: the rows are listed; an empty list returns undefined
CallPopItem(t) ==
    /\ turn[t].pc = "settled"
    /\ LET rows == listMessages(conversationId)
       IN turn' = [turn EXCEPT ![t] =
                      [op |-> "popItem", pc |-> IF Len(rows) = 0 THEN "settled" ELSE "delete",
                       messages |-> rows, deleted |-> <<>>, latest |-> <<>>, returned |-> <<>>,
                       status |-> "ok"]]
    /\ UNCHANGED <<journal, toolVars, reader, handoffs, buildVars, sessionVars, chatVars>>

\* popItem lines 165-168: the row listed last is deleted, by id, and then
\* converted; `latest` is the id of the newest row the table holds when the
\* DELETE runs
DeleteListed(t) ==
    /\ turn[t].op = "popItem" /\ turn[t].pc = "delete"
    /\ LET c == turn[t]
           lastMessage == c.messages[Len(c.messages)]
           now == listMessages(conversationId)
           r == messageToAgentInputItem(lastMessage)
       IN /\ messages' = deleteMessage(messages, lastMessage.id)
          /\ turn' = [turn EXCEPT ![t] =
                         [c EXCEPT !.pc = "settled",
                                   !.deleted = <<lastMessage.id>>,
                                   !.latest = IF now = <<>> THEN <<>> ELSE <<now[Len(now)].id>>,
                                   !.status = IF r.ok THEN "ok" ELSE "error",
                                   !.returned = IF r.ok THEN <<r.item>> ELSE <<>>]]
    /\ UNCHANGED <<conversations, nextId, clock, lastOp, journal, toolVars, reader,
                   handoffs, buildVars, chatVars>>

NextTurns ==
    \/ \E t \in Turns, items \in TurnItemLists : CallAddItems(t, items)
    \/ \E t \in Turns : AddMessage(t)
    \/ \E t \in Turns : CallPopItem(t)
    \/ \E t \in Turns : DeleteListed(t)
    \/ GetItems(NoLimit)

-----------------------------------------------------------------------------
(* chat.ts: the raw event feed of a run and its translation to frames *)

\* most raw events the feed of one run carries
MaxFeed == 4
\* most chat requests the server receives
MaxRequests == 2

\* the three event families of the streamed result
AgentUpdated(name) == [type |-> "agent_updated_stream_event", agent |-> [name |-> name]]
RawModel(data) == [type |-> "raw_model_stream_event", data |-> data]
RunItemEvent(name, item) == [type |-> "run_item_stream_event", name |-> name, item |-> item]

ResponseStarted == RawModel([type |-> "response_started"])
TextDelta(delta) == RawModel([type |-> "output_text_delta", delta |-> delta])
ResponseDone == RawModel([type |-> "response_done"])
ModelEvent == RawModel([type |-> "model"])
ToolCalled ==
    RunItemEvent("tool_called", [agent |-> [name |-> "Alpha"], rawItem |-> ToolCall])
HandoffRequested == RunItemEvent("handoff_requested", [rawItem |-> HandoffCall])
HandoffOccurred ==
    RunItemEvent("handoff_occurred",
                 [sourceAgent |-> [name |-> "Alpha"], targetAgent |-> [name |-> "Bravo"]])
\* an event of a family this version of the handler does not know
FutureEvent == [type |-> "future_stream_event"]

Deltas == {"Hi", " there"}
RawEvents ==
    {AgentUpdated("Bravo"), ResponseStarted, ResponseDone, ModelEvent, ToolCalled,
     HandoffRequested, HandoffOccurred, FutureEvent} \cup {TextDelta(d) : d \in Deltas}

\* what one handler call did: the data it gave to emit, and the text it returned
Handled(emitted, returned) == [emitted |-> emitted, returned |-> returned]

\* handleRawModelStreamEvent, lines 544-578
handleRawModelStreamEvent(event) ==
    LET rawEvent == event.data
    IN CASE rawEvent.type = "model" -> Handled(<<>>, "")
         [] rawEvent.type = "output_text_delta" ->
                Handled(<<[type |-> "text", content |-> rawEvent.delta]>>, rawEvent.delta)
         [] rawEvent.type = "response_started" -> Handled(<<[type |-> "started"]>>, "")
         [] rawEvent.type = "response_done" -> Handled(<<[type |-> "stopped"]>>, "")
         [] OTHER -> Handled(<<>>, "")

\* getToolName, lines 628-641
getToolName(item) ==
    CASE item.rawItem.type = "computer_call" -> item.rawItem.action.type
      [] item.rawItem.type = "function_call" -> item.rawItem.name
      [] item.rawItem.type = "hosted_tool_call" -> item.rawItem.name
      [] OTHER -> item.rawItem.type

\* handleRunItemStreamEvent, lines 580-626
handleRunItemStreamEvent(event) ==
    CASE event.name = "tool_called" ->
            Handled(<<[type |-> "tool_call", name |-> getToolName(event.item),
                       agent |-> event.item.agent.name,
                       status |-> event.item.rawItem.status]>>, "")
      [] event.name = "handoff_requested" ->
            Handled(<<[type |-> "handoff", name |-> event.item.rawItem.name]>>, "")
      \* console.log("Handoff complete:", targetAgent.name): nothing is emitted
      [] event.name = "handoff_occurred" -> Handled(<<>>, "")
      [] OTHER -> Handled(<<>>, "")

\* handleAgentUpdatedStreamEvent, lines 643-656
handleAgentUpdatedStreamEvent(event) ==
    Handled(<<[type |-> "agent_update", agent |-> [name |-> event.agent.name]]>>, "")

\* the switch of the for-await loop has no default case: an event of another
\* type falls through it
RelayUnknown(event) == Handled(<<[type |-> event.type]>>, "")
UnknownEvent(event) == Handled(<<>>, "")

\* the switch of the for-await loop, lines 183-198
Dispatch(event) ==
    CASE event.type = "agent_updated_stream_event" -> handleAgentUpdatedStreamEvent(event)
      [] event.type = "raw_model_stream_event" -> handleRawModelStreamEvent(event)
      [] event.type = "run_item_stream_event" -> handleRunItemStreamEvent(event)
      [] OTHER -> UnknownEvent(event)

\* fullOutput += handleRawModelStreamEvent(event, emit), line 191
Overwrite(fullOutput, returned) == returned
Accumulate(fullOutput, returned) == fullOutput \o returned

\* controller.enqueue(encoder.encode(`data: ${JSON.stringify(data)}\n\n`))
Enqueue(data) == JsonStringify(data)
EnqueueAll(datas) == [k \in 1..Len(datas) |-> Enqueue(datas[k])]
\* the client's JSON.parse of a frame
FrameType(frame) == JsonParse(frame).type

-----------------------------------------------------------------------------
(* chat.ts: the chat handlers sendMessageStream and sendMessage *)

Requests == {1, 2}

\* users.openai_api_key is stored encrypted (utils/encryption)
ApiKeyOf(userId) == IF userId = 1 THEN "sk-user1" ELSE "sk-user2"
Encrypt(plain) == [encrypted |-> plain]
decrypt(cipher) == cipher.encrypted
\* what auth.user.openai_api_key may hold for a user
StoredKeys(userId) == {Null, Encrypt(ApiKeyOf(userId))}

\* the message bodies a request may carry, and message.trim()
Messages == {"", " ", "hi"}
Trim(message) == IF message = " " THEN "" ELSE message

\* the conversation_id a request may carry: none (0), a stored one, a missing one
ConversationIds == {0, 1, 2, 9}

NoConversation == [user_id |-> 0, agent_id |-> 0, updated_at |-> 0]

\* SELECT * FROM conversations WHERE id = ${id}; result[0] || null
findById(table, id) == IF id \in DOMAIN table THEN table[id] ELSE NoConversation

\* INSERT INTO conversations (user_id, agent_id, title) ... RETURNING *
create(table, id, userId, agentId, now) ==
    table @@ (id :> [user_id |-> userId, agent_id |-> agentId, updated_at |-> now])

\* the negation of line 123: !conversation || conversation.user_id !== auth.user.id
ExistsConversation(conversation, userId) == conversation # NoConversation
OwnsConversation(conversation, userId) ==
    conversation # NoConversation /\ conversation.user_id = userId

NoResponse == [status |-> 0, error |-> ""]

\* the locals of one handler activation; before is what the tables held when
\* the request arrived
NoRequest ==
    [pc |-> "idle", kind |-> "", user |-> 0, slug |-> "", message |-> "",
     conversation_id |-> 0, agentConfig |-> NoAgent, openaiApiKey |-> "",
     conversationId |-> 0, before |-> [conversations |-> {}, messages |-> {}],
     built |-> FALSE, ran |-> FALSE, read |-> FALSE, opened |-> FALSE,
     frames |-> <<>>, closed |-> FALSE, feed |-> <<>>, fullOutput |-> "",
     keysSeen |-> {}, response |-> NoResponse, stage |-> ""]

\* return new Response(JSON.stringify({ error }), { status })
Respond(q, status, error, stage) ==
    [q EXCEPT !.pc = "done", !.response = [status |-> status, error |-> error],
              !.stage = stage]

\* lines 51-106 and 249-304: validation, getAgentConfig, the credential
Receive(r, kind, userId, slug, message, conversation_id, openai_api_key) ==
    /\ req[r].pc = "idle"
    /\ served < MaxRequests
    /\ served' = served + 1
    /\ LET q == [NoRequest EXCEPT !.kind = kind, !.user = userId, !.slug = slug,
                     !.message = message, !.conversation_id = conversation_id,
                     !.before = [conversations |-> DOMAIN conversations,
                                 messages |-> messages]]
           agentData == findBySlug(userId, slug)
           err == ResolveError(agentData, userId)
       IN req' = [req EXCEPT ![r] =
            IF slug = "" THEN Respond(q, 400, "Agent slug is required", "validation")
            ELSE IF message = "" \/ Trim(message) = ""
            THEN Respond(q, 400, "Message is required", "validation")
            ELSE IF err # "" THEN Respond(q, 500, err, "config")
            ELSE IF openai_api_key = Null
            THEN Respond(q, 400, "OpenAI API key not configured", "validation")
            ELSE [q EXCEPT !.pc = "conversation", !.agentConfig = agentData,
                           !.openaiApiKey = decrypt(openai_api_key)]]
    /\ UNCHANGED <<handoffs, restVars, buildVars, sessionVars, defaultOpenAIKey, nextConv>>

\* lines 108-131 and 310-333: get or create the conversation, verify its owner
Conversation(r) ==
    /\ req[r].pc = "conversation"
    /\ LET q == req[r]
           creates == q.conversation_id = 0
           id == IF creates THEN nextConv ELSE q.conversation_id
           table == IF creates
                    THEN create(conversations, nextConv, q.user, q.agentConfig.id, clock)
                    ELSE conversations
       IN /\ conversations' = table
          /\ nextConv' = IF creates THEN nextConv + 1 ELSE nextConv
          /\ clock' = IF creates THEN clock + 1 ELSE clock
          /\ req' = [req EXCEPT ![r] =
                IF ~OwnsConversation(findById(table, id), q.user)
                THEN Respond(q, 404, "Conversation not found", "conversation")
                ELSE [q EXCEPT !.conversationId = id,
                               !.pc = IF q.kind = "plain" THEN "saveUser" ELSE "build"]]
    /\ UNCHANGED <<handoffs, restVars, buildVars, messages, nextId, lastOp, defaultOpenAIKey, served>>

\* sendMessage lines 335-340: the user message is saved before the build
SaveUserMessage(r) ==
    /\ req[r].pc = "saveUser"
    /\ LET q == req[r]
       IN /\ messages' = messages \cup
                { MessageRow([conversation_id |-> q.conversationId, role |-> "user",
                              content |-> q.message, raw_data |-> Null, agent_id |-> 0],
                             nextId, clock, FALSE) }
          /\ conversations' = Touch(q.conversationId, clock + 1)
    /\ nextId' = nextId + 1
    /\ clock' = clock + 2
    /\ req' = [req EXCEPT ![r].pc = "build"]
    /\ UNCHANGED <<handoffs, restVars, buildVars, lastOp, defaultOpenAIKey, nextConv, served>>

\* lines 151-156: the init frame is enqueued before run is called
NoInitFrame(id) == <<>>
InitFrames(id) == <<Enqueue([type |-> "init", conversation_id |-> id])>>

\* lines 204-205
DoneFrames == <<Enqueue([type |-> "done"])>>

\* lines 210-214
ErrorFrames(message) == <<Enqueue([type |-> "error", error |-> message])>>

\* lines 136-164 and 342-374: createAgent, setDefaultOpenAIKey, the stream is
\* opened and run is called.  settles is whether the awaited store reads of
\* createAgentRecursive (AgentFactory.ts lines 53-77) all resolve: the root
\* activation catches nothing
BuildAgent(r, settles) ==
    /\ req[r].pc = "build"
    /\ LET q == [req[r] EXCEPT !.built = TRUE]
       IN IF ~settles
          THEN /\ req' = [req EXCEPT ![r] =
                            Respond(q, 500, "Failed to process message", "build")]
               /\ UNCHANGED defaultOpenAIKey
          ELSE /\ defaultOpenAIKey' = q.openaiApiKey
               /\ req' = [req EXCEPT ![r] =
                    IF q.kind = "stream"
                    THEN [q EXCEPT !.pc = "run", !.ran = TRUE, !.opened = TRUE,
                                   !.frames = InitFrames(q.conversationId),
                                   !.response = [status |-> 200, error |-> ""],
                                   !.stage = "stream"]
                    ELSE [q EXCEPT !.pc = "events", !.ran = TRUE]]
    /\ UNCHANGED <<handoffs, restVars, buildVars, sessionVars, nextConv, served>>

\* the catch blocks: lines 208-216 (an error frame, then close) and lines
\* 395-412 (a 500 response)
Fail(q, message) ==
    IF q.kind = "stream"
    THEN [q EXCEPT !.pc = "done", !.frames = @ \o ErrorFrames(message), !.closed = TRUE]
    ELSE Respond(q, 500, message, "run")

\* run(agent, message, { stream: true, session }): the run reads the history
\* of the session before the model is called
RunBegins(r) ==
    /\ req[r].pc = "run"
    /\ LET q == [req[r] EXCEPT !.read = TRUE]
           history == getItems(listMessages(q.conversationId), NoLimit)
       IN req' = [req EXCEPT ![r] =
            IF history.status = "error" THEN Fail(q, history.error)
            ELSE [q EXCEPT !.pc = "events"]]
    /\ UNCHANGED <<handoffs, restVars, buildVars, sessionVars, defaultOpenAIKey, nextConv, served>>

IsModelEvent(event) == event.type = "raw_model_stream_event"

\* one iteration of for await (const event of streamedResult), lines 182-199;
\* in sendMessage the events of the run stay inside run.  A model event is a
\* call to the provider, made with the default key of that moment
Event(r, event) ==
    /\ req[r].pc = "events"
    /\ Len(req[r].feed) < MaxFeed
    /\ LET q == req[r]
           handled == Dispatch(event)
       IN req' = [req EXCEPT ![r] =
            [q EXCEPT !.feed = Append(@, event),
                      !.frames = IF q.kind = "stream"
                                 THEN @ \o EnqueueAll(handled.emitted) ELSE @,
                      !.fullOutput = IF q.kind = "stream" /\ IsModelEvent(event)
                                     THEN Accumulate(@, handled.returned) ELSE @,
                      !.keysSeen = IF IsModelEvent(event)
                                   THEN @ \cup {defaultOpenAIKey} ELSE @]]
    /\ UNCHANGED <<handoffs, restVars, buildVars, sessionVars, defaultOpenAIKey, nextConv, served>>

\* the run rejects, or the iteration of its events throws
RunThrows(r) ==
    /\ req[r].pc \in {"run", "events"}
    /\ req' = [req EXCEPT ![r] = Fail(req[r], "Upstream failure")]
    /\ UNCHANGED <<handoffs, restVars, buildVars, sessionVars, defaultOpenAIKey, nextConv, served>>

\* result.finalOutput: the text the run produced
RECURSIVE FinalOutput(_)
FinalOutput(feed) ==
    IF feed = <<>> THEN ""
    ELSE (IF IsModelEvent(Head(feed)) /\ Head(feed).data.type = "output_text_delta"
          THEN Head(feed).data.delta ELSE "") \o FinalOutput(Tail(feed))

UserItem(message) == [type |-> "message", role |-> "user", content |-> Str(message)]
AssistantItem(text) ==
    [type |-> "message", role |-> "assistant", status |-> "completed",
     content |-> Arr(<< [type |-> "output_text", text |-> text] >>)]

\* "Session automatically saves messages" (line 201): what a completed run
\* hands to session.addItems, the input of the turn and the message produced
RunItems(message, feed) ==
    <<UserItem(message)>> \o
        (IF FinalOutput(feed) = "" THEN <<>> ELSE <<AssistantItem(FinalOutput(feed))>>)

\* addItems of the session of conversation convId
SessionData(convId, item) == [MessageData(item) EXCEPT !.conversation_id = convId]

\* agent_id: agentConfig.id, line 385
AttributedAgent(q) == q.agentConfig.id

\* the run completes.  sendMessageStream lines 201-207: the session has saved
\* the items, done is enqueued and the stream closed.  sendMessage lines
\* 376-394: the final output is saved as the assistant message
RunEnds(r, asText) ==
    /\ req[r].pc = "events"
    /\ LET q == req[r]
           items == RunItems(q.message, q.feed)
           n == Len(items)
           finalOutput == FinalOutput(q.feed)
       IN IF q.kind = "stream"
          THEN /\ messages' = messages \cup
                      InsertAll([k \in 1..n |-> SessionData(q.conversationId, items[k])],
                                nextId, clock, asText)
               /\ nextId' = nextId + n
               /\ clock' = clock + 2 * n
               /\ conversations' = Touch(q.conversationId, clock + 2 * n - 1)
               /\ req' = [req EXCEPT ![r] =
                            [q EXCEPT !.pc = "done", !.frames = @ \o DoneFrames,
                                      !.closed = TRUE]]
          ELSE IF finalOutput = ""
          THEN /\ req' = [req EXCEPT ![r] =
                            Fail(q, "Agent did not return any output")]
               /\ UNCHANGED <<conversations, messages, nextId, clock>>
          ELSE /\ messages' = messages \cup
                      { MessageRow([conversation_id |-> q.conversationId,
                                    role |-> "assistant", content |-> finalOutput,
                                    raw_data |-> Null, agent_id |-> AttributedAgent(q)],
                                   nextId, clock, FALSE) }
               /\ nextId' = nextId + 1
               /\ clock' = clock + 2
               /\ conversations' = Touch(q.conversationId, clock + 1)
               /\ req' = [req EXCEPT ![r] =
                            [q EXCEPT !.pc = "done", !.stage = "reply",
                                      !.response = [status |-> 200, error |-> ""]]]
    /\ UNCHANGED <<handoffs, restVars, buildVars, lastOp, defaultOpenAIKey, nextConv, served>>

\* the handler has returned and its stream is closed: its locals are gone
Forget(r) ==
    /\ req[r].pc = "done"
    /\ req' = [req EXCEPT ![r] = NoRequest]
    /\ UNCHANGED <<handoffs, restVars, buildVars, sessionVars, defaultOpenAIKey, nextConv, served>>

-----------------------------------------------------------------------------
(* The chat specifications *)

\* most raw events of a run when whole chat turns are explored
MaxTurnFeed == 2

\* the events a run of the built agent may produce: text, and the switch to
\* an agent the root hands off to
EngineEvents(q) ==
    {TextDelta("Hi")} \cup
        {AgentUpdated(listHandoffs(q.agentConfig.id)[k].name) :
            k \in 1..Len(listHandoffs(q.agentConfig.id))}

\* an event of a run whose feed is kept short
TurnEvent(r, event) == Len(req[r].feed) < MaxTurnFeed /\ Event(r, event)

Kinds == {"stream", "plain"}
ChatSlugs == {"", "a", "z"}

\* one request at a time: every chat turn, whatever the request holds
NextChat ==
    \/ \E kind \in Kinds, u \in Users, s \in ChatSlugs, m \in Messages,
          c \in ConversationIds :
          \E key \in StoredKeys(u) : Receive(1, kind, u, s, m, c, key)
    \/ Conversation(1)
    \/ SaveUserMessage(1)
    \/ \E settles \in BOOLEAN : BuildAgent(1, settles)
    \/ RunBegins(1)
    \/ \E e \in EngineEvents(req[1]) : TurnEvent(1, e)
    \/ RunThrows(1)
    \/ RunEnds(1, FALSE)
    \/ Forget(1)

\* the turns of user 1 with Alpha and with Bravo ("c"), an agent of user 1 no
\* stored conversation is bound to, in a new conversation or in conversation 1
NextBound ==
    \/ \E kind \in Kinds, s \in {"a", "c"}, c \in {0, 1} :
          Receive(1, kind, 1, s, "hi", c, Encrypt(ApiKeyOf(1)))
    \/ Conversation(1)
    \/ SaveUserMessage(1)
    \/ BuildAgent(1, TRUE)
    \/ RunBegins(1)
    \/ \E e \in EngineEvents(req[1]) : TurnEvent(1, e)
    \/ RunThrows(1)
    \/ RunEnds(1, FALSE)
    \/ Forget(1)

\* one streamed turn fed every raw event
NextTranslate ==
    \/ Receive(1, "stream", 1, "a", "hi", 0, Encrypt(ApiKeyOf(1)))
    \/ Conversation(1)
    \/ BuildAgent(1, TRUE)
    \/ RunBegins(1)
    \/ \E e \in RawEvents : Event(1, e)
    \/ RunThrows(1)
    \/ RunEnds(1, FALSE)

\* two requests in flight, one of each user, on their own conversations
NextConcurrent ==
    \/ \E r \in Requests, kind \in Kinds :
          \E c \in {0, r} : Receive(r, kind, r, "a", "hi", c, Encrypt(ApiKeyOf(r)))
    \/ \E r \in Requests : Conversation(r)
    \/ \E r \in Requests : SaveUserMessage(r)
    \/ \E r \in Requests : BuildAgent(r, TRUE)
    \/ \E r \in Requests : RunBegins(r)
    \/ \E r \in Requests : TurnEvent(r, TextDelta("Hi"))
    \/ \E r \in Requests : RunThrows(r)
    \/ \E r \in Requests : RunEnds(r, FALSE)

-----------------------------------------------------------------------------
(* AuthContext.tsx: api.chat.sendMessageStream, the browser's reader of a   *)
(* streamed response                                                       *)

\* The bytes of a response body.  The text of a frame is two pieces, and so
\* is the prefix "data: ", so that a network read can end inside either.
Lit(text) == [lit |-> text]
Half(frame, n) == [text |-> frame, half |-> n]
Newline == Lit("\n")

\* encoder.encode(`data: ${chunk}\n\n`), chat.ts lines 156, 180, 205
Encode(frame) ==
    <<Lit("data"), Lit(": "), Half(frame, 1), Half(frame, 2), Newline, Newline>>

RECURSIVE EncodeAll(_)
EncodeAll(frames) ==
    IF frames = <<>> THEN <<>> ELSE Encode(Head(frames)) \o EncodeAll(Tail(frames))

\* the frames of the responses the reader is given
StreamBodies ==
    { InitFrames(1) \o DoneFrames,
      InitFrames(1) \o <<Enqueue([type |-> "text", content |-> "Hi"])>> \o DoneFrames,
      InitFrames(1) \o ErrorFrames("boom") }

\* chunk.split("\n"); `line` is the line collected so far
RECURSIVE Split(_, _)
Split(chunk, line) ==
    IF chunk = <<>> THEN <<line>>
    ELSE IF Head(chunk) = Newline THEN <<line>> \o Split(Tail(chunk), <<>>)
    ELSE Split(Tail(chunk), Append(line, Head(chunk)))

\* line.startsWith("data: ")
StartsWithData(line) == Len(line) >= 2 /\ line[1] = Lit("data") /\ line[2] = Lit(": ")

\* JSON.parse(text) returns for the whole text of a frame and throws a
\* SyntaxError for a part of it, the empty text included
IsJson(text) == Len(text) = 2 /\ text = <<Half(text[1].text, 1), Half(text[1].text, 2)>>

\* lines 408-413 of AuthContext.tsx: the loop over the lines of one chunk; what onChunk has been
\* given, and whether JSON.parse threw
RECURSIVE ForEachLine(_, _)
ForEachLine(lines, given) ==
    IF lines = <<>> THEN [given |-> given, threw |-> FALSE]
    ELSE LET line == Head(lines)
             text == SubSeq(line, 3, Len(line))
         IN IF ~StartsWithData(line) THEN ForEachLine(Tail(lines), given)
            ELSE IF IsJson(text)
                 THEN ForEachLine(Tail(lines), Append(given, JsonParse(text[1].text)))
                 ELSE [given |-> given, threw |-> TRUE]

\* fetch resolves with a 200 response whose body will carry `frames`
Fetch(frames) ==
    /\ reader.pc = "none"
    /\ reader' = [pc |-> "read", sent |-> frames, body |-> EncodeAll(frames),
                  given |-> <<>>, reads |-> 0]
    /\ UNCHANGED <<toolVars, turnVars, handoffs, buildVars, sessionVars, chatVars>>

\* `await reader.read()` returns the next n bytes of the body, lines 402-414
Read(n) ==
    /\ reader.pc = "read"
    /\ n \in 1..Len(reader.body)
    /\ LET chunk == SubSeq(reader.body, 1, n)
           r == ForEachLine(Split(chunk, <<>>), reader.given)
       IN reader' = [reader EXCEPT !.body = SubSeq(reader.body, n + 1, Len(reader.body)),
                                   !.given = r.given,
                                   !.reads = @ + 1,
                                   !.pc = IF r.threw THEN "rejected" ELSE "read"]
    /\ UNCHANGED <<toolVars, turnVars, handoffs, buildVars, sessionVars, chatVars>>

\* `if (done) break`: the body is exhausted and sendMessageStream resolves
EndOfBody ==
    /\ reader.pc = "read"
    /\ reader.body = <<>>
    /\ reader' = [reader EXCEPT !.pc = "resolved"]
    /\ UNCHANGED <<toolVars, turnVars, handoffs, buildVars, sessionVars, chatVars>>

NextReader ==
    \/ \E frames \in StreamBodies : Fetch(frames)
    \/ \E n \in 1..Len(reader.body) : Read(n)
    \/ EndOfBody

-----------------------------------------------------------------------------
(* The initial states *)

InitFactory ==
    /\ phase = "idle"
    /\ context = 0
    /\ rootSlug = ""
    /\ stack = <<>>
    /\ result = NoResult
    /\ reads = <<>>
    /\ skipped = <<>>
    /\ nextObj = 1
    /\ maxDepth = 0

\* no agent has a tool yet; the registry holds its three rows
InitTools ==
    /\ agent_built_in_tools = [a \in {x.id : x \in agents} |-> {}]
    /\ agent_mcp_tools = [a \in {x.id : x \in agents} |-> <<>>]
    /\ mcp_servers = {srv.id : srv \in McpServers}

InitBuild == handoffs = {} /\ InitFactory

InitSession ==
    /\ conversations = [c \in Conversations |->
            IF c = 1 THEN [user_id |-> 1, agent_id |-> 1, updated_at |-> 0]
                     ELSE [user_id |-> 2, agent_id |-> 5, updated_at |-> 0]]
    /\ messages = {}
    /\ nextId = 1
    /\ clock = 1
    /\ lastOp = [op |-> "none"]

InitTurns ==
    /\ turn = [t \in Turns |-> NoCall]
    /\ journal = <<>>

InitReader == reader = [pc |-> "none", sent |-> <<>>, body |-> <<>>, given |-> <<>>, reads |-> 0]

InitRest == InitTools /\ InitTurns /\ InitReader

InitRequests ==
    /\ req = [r \in Requests |-> NoRequest]
    /\ defaultOpenAIKey = ""
    /\ nextConv = 3
    /\ served = 0

Init == InitBuild /\ InitSession /\ InitRequests /\ InitRest

\* the store of the chat turns: Alpha hands off to Bravo
InitChat == handoffs = {<<1, 3>>} /\ InitFactory /\ InitSession /\ InitRequests /\ InitRest

BuildStep == Enter \/ ReadRegistry \/ Recurse \/ Return

NextBuild ==
    \/ \E u \in Users, s \in Slugs, t \in Slugs : AddHandoff(u, s, t)
    \/ \E u \in Users, s \in Slugs, t \in Slugs : RemoveHandoff(u, s, t)
    \/ \E u \in Users, s \in Slugs : CreateAgent(u, s)
    \/ \E u \in Users, s \in Slugs : GetAgentConfig(u, s)
    \/ Enter
    \/ ReadRegistry
    \/ Recurse
    \/ Return
    \/ Discard

\* slugs of the builds that run next to the tool requests
ToolSlugs == {"a", "c", "z"}

ToolEdit ==
    \/ \E u \in Users, s \in {"a", "z"}, tool \in ToolNames : AddBuiltInTool(u, s, tool)
    \/ \E u \in Users, s \in {"a", "z"}, tool \in ToolNames : RemoveBuiltInTool(u, s, tool)
    \/ \E u \in Users, s \in {"a", "z"}, id \in McpServerIds : AddMcpTool(u, s, id)
    \/ \E u \in Users, s \in {"a", "z"}, id \in McpServerIds : RemoveMcpTool(u, s, id)

\* builds racing with the requests that edit tools and the registry
NextRegistry ==
    \/ ToolEdit
    \/ \E u \in Users, id \in McpServerIds : RemoveMcpServer(u, id)
    \/ \E u \in Users, s \in ToolSlugs : CreateAgent(u, s)
    \/ Enter
    \/ ReadRegistry
    \/ Recurse
    \/ Return
    \/ Discard

\* requests that edit the stored configuration, each answered before the
\* next build starts
NextConfig ==
    \/ phase = "idle" /\ ToolEdit
    \/ phase = "idle" /\ \E u \in Users, id \in McpServerIds : RemoveMcpServer(u, id)
    \/ \E s \in {"a", "c"}, t \in {"a", "c"} : AddHandoff(1, s, t)
    \/ \E s \in {"a", "c"}, t \in {"a", "c"} : RemoveHandoff(1, s, t)
    \/ \E u \in Users, s \in ToolSlugs : CreateAgent(u, s)
    \/ Enter
    \/ ReadRegistry
    \/ Recurse
    \/ Return
    \/ Discard

\* the handoff requests alone, from every user and for every slug
NextHandoffs ==
    \/ \E u \in Users, s \in Slugs, t \in Slugs : AddHandoff(u, s, t)
    \/ \E u \in Users, s \in Slugs, t \in Slugs : RemoveHandoff(u, s, t)

\* builds whose store reads may fail, over the handoff graphs of one user
NextFaulty ==
    \/ \E s \in {"a", "b", "c"}, t \in {"a", "b", "c"} : AddHandoff(1, s, t)
    \/ \E s \in {"a", "b", "c"}, t \in {"a", "b", "c"} : RemoveHandoff(1, s, t)
    \/ \E u \in Users, s \in {"a", "b", "z"} : CreateAgent(u, s)
    \/ Enter
    \/ ReadRegistry
    \/ ReadFails
    \/ Recurse
    \/ Return
    \/ Discard

SpecBuild == Init /\ [][NextBuild]_vars

\* an awaited repository call settles, so a build in flight takes its next step
FairSpecBuild == SpecBuild /\ WF_vars(BuildStep)

SpecSession == Init /\ [][NextSession]_vars

SpecChat == InitChat /\ [][NextChat]_vars

SpecTranslate == InitChat /\ [][NextTranslate]_vars

SpecBound == InitChat /\ [][NextBound]_vars

SpecConcurrent == InitChat /\ [][NextConcurrent]_vars

SpecTurns == Init /\ [][NextTurns]_vars

SpecRegistry == InitChat /\ [][NextRegistry]_vars

SpecConfig == InitChat /\ [][NextConfig]_vars

SpecHandoffs == Init /\ [][NextHandoffs]_vars

SpecFaulty == Init /\ [][NextFaulty]_vars

SpecReader == Init /\ [][NextReader]_vars

Next ==
    \/ NextBuild \/ NextHandoffs \/ NextFaulty \/ NextRegistry \/ NextConfig
    \/ NextSession \/ NextTurns
    \/ NextChat \/ NextBound \/ NextTranslate \/ NextConcurrent
    \/ NextReader
Spec == Init /\ [][Next]_vars

-----------------------------------------------------------------------------
(* Reading a finished build *)

BuildDone == phase = "done" /\ result.op = "createAgent"
BuildOk == BuildDone /\ result.status = "ok"
Root == result.agent[1]

ChildrenWithSlug(t, slug) == {i \in 1..Len(t.handoffs) : t.handoffs[i].slug = slug}

RECURSIVE NodeCount(_)
NodeCount(ts) ==
    IF ts = <<>> THEN 0
    ELSE 1 + NodeCount(Head(ts).handoffs) + NodeCount(Tail(ts))

RECURSIVE ObjsOf(_)
ObjsOf(ts) ==
    IF ts = <<>> THEN {}
    ELSE {Head(ts).obj} \cup ObjsOf(Head(ts).handoffs) \cup ObjsOf(Tail(ts))

RECURSIVE OwnersOf(_)
OwnersOf(ts) ==
    IF ts = <<>> THEN {}
    ELSE {Head(ts).owner} \cup OwnersOf(Head(ts).handoffs) \cup OwnersOf(Tail(ts))

Count(seq, x) == Cardinality({i \in 1..Len(seq) : seq[i] = x})

\* ids that a chain of one or more stored handoff edges reaches from id
RECURSIVE ReachFrom(_, _)
ReachFrom(frontier, seen) ==
    LET next == {h[2] : h \in {e \in handoffs : e[1] \in frontier}} \ seen
    IN IF next = {} THEN seen ELSE ReachFrom(next, seen \cup next)
Reachable(id) == ReachFrom({id}, {})

OwnAgents(userId, slug) == {a \in agents : a.user_id = userId /\ a.slug = slug}
RootOnOwnChain ==
    \E a \in OwnAgents(context, rootSlug) : a.id \in Reachable(a.id)

-----------------------------------------------------------------------------
(* C1: with A -> B and B -> A stored for one owner, build(owner, A) succeeds, *)
(* the root's handoff list contains B, and no B in that list has A in its   *)
(* own handoff list: the edge back is dropped, the build does not fail.     *)
C1_MutualHandoffBuilds ==
    \A x \in agents, y \in agents :
        ( /\ BuildDone
          /\ context = x.user_id /\ rootSlug = x.slug
          /\ <<x.id, y.id>> \in handoffs /\ <<y.id, x.id>> \in handoffs )
        => /\ result.status = "ok"
           /\ ChildrenWithSlug(Root, y.slug) # {}
           /\ \A i \in ChildrenWithSlug(Root, y.slug) :
                  ChildrenWithSlug(Root.handoffs[i], x.slug) = {}

C1_Witness ==
    /\ BuildOk
    /\ context = 1 /\ rootSlug = "a"
    /\ <<1, 2>> \in handoffs /\ <<2, 1>> \in handoffs
    /\ ChildrenWithSlug(Root, "b") # {}
    /\ \E k \in 1..Len(skipped) : skipped[k] = [slug |-> "a", error |-> "Circular"]

-----------------------------------------------------------------------------
(* C2: for the diamond A -> {B, C}, B -> D, C -> D the build succeeds and   *)
(* D stands once under B and once under C, each from its own resolution: D *)
(* is read from the store once per path, the two D are different objects,  *)
(* and in every build each node of the tree has its own store read and its *)
(* own object (nothing is memoised).                                        *)
Diamond == {<<1, 2>>, <<1, 3>>, <<2, 4>>, <<3, 4>>}

C2_DiamondResolvesTwice ==
    /\ ( BuildDone /\ context = 1 /\ rootSlug = "a" /\ handoffs = Diamond )
       => /\ result.status = "ok"
          /\ Len(Root.handoffs) = 2
          /\ ChildrenWithSlug(Root, "b") # {} /\ ChildrenWithSlug(Root, "c") # {}
          /\ \A i \in 1..2 : /\ Len(Root.handoffs[i].handoffs) = 1
                             /\ Root.handoffs[i].handoffs[1].slug = "d"
          /\ Root.handoffs[1].handoffs[1].obj # Root.handoffs[2].handoffs[1].obj
          /\ Count(reads, "d") = 2
          /\ skipped = <<>>
    /\ BuildOk
       => /\ Cardinality(ObjsOf(result.agent)) = NodeCount(result.agent)
          /\ Len(reads) = NodeCount(result.agent)
                + Cardinality({k \in 1..Len(skipped) : skipped[k].error # "Circular"})

C2_Witness ==
    /\ BuildOk /\ context = 1 /\ rootSlug = "a" /\ handoffs = Diamond
    /\ reads = <<"a", "c", "d", "b", "d">>
    /\ NodeCount(result.agent) = 5

-----------------------------------------------------------------------------
(* C3 as stated: build fails with CircularDependency if the root slug       *)
(* reappears on its own handoff chain.                                      *)
C3_RootCycleFails ==
    (BuildDone /\ RootOnOwnChain)
        => (result.status = "error" /\ result.error = "Circular")

(* C3 as amended: build never fails with CircularDependency; when the root *)
(* slug reappears on its own handoff chain the build succeeds, the edge    *)
(* leading back to the root is skipped with a warning, and the root's slug *)
(* does not appear below the root.                                         *)
C3_RootCycleIsPruned ==
    BuildDone =>
        /\ result.error # "Circular"
        /\ RootOnOwnChain =>
              /\ result.status = "ok"
              /\ rootSlug \notin SlugsOfTrees(Root.handoffs)
              /\ \E k \in 1..Len(skipped) :
                     skipped[k] = [slug |-> rootSlug, error |-> "Circular"]

C3_Witness ==
    /\ BuildOk /\ RootOnOwnChain
    /\ context = 1 /\ rootSlug = "b"
    /\ Len(Root.handoffs) >= 1

-----------------------------------------------------------------------------
(* C4 as stated: build(ownerX, slug), where an agent of that slug belongs  *)
(* to another owner Y, fails with Unauthorized, whether or not ownerX has  *)
(* an agent of that slug.                                                  *)
C4_ForeignSlugUnauthorized ==
    (BuildDone /\ \E a \in agents : a.slug = rootSlug /\ a.user_id # context)
        => (result.status = "error" /\ result.error = "Unauthorized")

(* C4 as amended: build never fails with Unauthorized, because the lookup  *)
(* is scoped to the owner: when ownerX has no agent of the slug the build  *)
(* fails with NotFound (also when another owner has one), when ownerX has  *)
(* one the build returns ownerX's own agent, and no agent of another owner *)
(* is ever part of the returned tree.                                      *)
C4_LookupIsOwnerScoped ==
    BuildDone =>
        /\ result.error # "Unauthorized"
        /\ OwnAgents(context, rootSlug) = {}
              => (result.status = "error" /\ result.error = "NotFound")
        /\ OwnAgents(context, rootSlug) # {}
              => (result.status = "ok" /\ OwnersOf(result.agent) = {context})

C4_Witness ==
    /\ BuildDone
    /\ context = 1 /\ rootSlug = "e"
    /\ \E a \in agents : a.slug = rootSlug /\ a.user_id = 2
    /\ result.error = "NotFound"

-----------------------------------------------------------------------------
(* C5: build(owner, rootSlug), and getAgentConfig likewise, fails with     *)
(* NotFound and returns no agent whenever the store has no agent with that *)
(* slug for that owner.                                                    *)
C5_MissingSlugNotFound ==
    (phase = "done" /\ OwnAgents(context, rootSlug) = {})
        => /\ result.status = "error"
           /\ result.error = "NotFound"
           /\ result.agent = <<>>

C5_Witness ==
    /\ BuildDone
    /\ rootSlug = "z"
    /\ result.status = "error" /\ result.error = "NotFound"
    /\ reads = <<"z">>

-----------------------------------------------------------------------------
(* C6: for every stored handoff graph, cycles included, build terminates,  *)
(* and the depth of nested resolution never exceeds the number of distinct *)
(* slugs on the current branch: the activations that passed the cycle      *)
(* check carry pairwise different slugs (so they are at most as many as    *)
(* the owner has agents), and at most one further activation, the one      *)
(* that is about to be rejected or resolved, sits on top of them.          *)
BranchSlugs == {stack[k].agentSlug : k \in 1..Len(stack)}
Resolving == {k \in 1..Len(stack) : stack[k].pc = "loop"}

C6_DepthBounded ==
    /\ Cardinality(Resolving) <= Cardinality(BranchSlugs)
    /\ \A j \in Resolving, k \in Resolving : j # k => stack[j].agentSlug # stack[k].agentSlug
    /\ \A k \in 1..Len(stack) : k < Len(stack) => k \in Resolving
    /\ Len(stack) <= Cardinality(BranchSlugs) + 1
    /\ Cardinality(Resolving) <= Cardinality({a \in agents : a.user_id = context})
    /\ maxDepth <= Cardinality({a \in agents : a.user_id = context}) + 1

-----------------------------------------------------------------------------
(* Reading the outcome of a DatabaseSession call *)

\* the structured payload a row holds, whichever way the column came back
PayloadOf(row) ==
    IF row.raw_data.typeof = "string" THEN row.raw_data.value.json
    ELSE row.raw_data.value

HasPayload(row) == row.raw_data # Null
Payloads(rows) == [k \in 1..Len(rows) |-> PayloadOf(rows[k])]
AllHavePayload(rows) == \A k \in 1..Len(rows) : HasPayload(rows[k])
Min(a, b) == IF a <= b THEN a ELSE b
Front(seq) == SubSeq(seq, 1, Len(seq) - 1)

-----------------------------------------------------------------------------
(* C7: for a session of n items and every given limit >= 0, 0 and limits   *)
(* above n included, getContext(limit) returns exactly the min(limit, n)   *)
(* most recent items, oldest first; with no limit it returns all n items.  *)
C7_LimitWindow ==
    (lastOp.op = "getItems" /\ lastOp.status = "ok") =>
        LET n == Len(lastOp.before)
            all == Payloads(lastOp.before)
        IN IF ~lastOp.limit.given THEN lastOp.items = all
           ELSE lastOp.limit.value >= 0 =>
                   lastOp.items = SubSeq(all, n - Min(lastOp.limit.value, n) + 1, n)

-----------------------------------------------------------------------------
-----------------------------------------------------------------------------
(* C9 as stated: from any session state, after append(items) getContext()  *)
(* returns the previous items followed by the appended items, each payload *)
(* equal to the one given to append.                                       *)
ContextNow == getItems(listMessages(conversationId), NoLimit)

-----------------------------------------------------------------------------
(* C10: popLast on a non-empty session removes exactly the most recent     *)
(* item and returns it, leaving every earlier item unchanged and in order; *)
(* popLast on an empty session returns none, raises no error and changes   *)
(* nothing.                                                                *)
C10_PopReturnsLast ==
    lastOp.op = "popItem" =>
        LET rows == listMessages(conversationId)
            n == Len(lastOp.before)
        IN IF n = 0
           THEN lastOp.status = "ok" /\ lastOp.returned = <<>> /\ rows = <<>>
           ELSE /\ rows = Front(lastOp.before)
                /\ lastOp.status = "ok"
                /\ Len(lastOp.returned) = 1
                /\ HasPayload(lastOp.before[n])
                      => lastOp.returned[1] = PayloadOf(lastOp.before[n])

-----------------------------------------------------------------------------
(* Reading the frames of a streamed turn *)

Streams == {r \in Requests : req[r].kind = "stream" /\ req[r].opened}
IsTerminal(frame) == FrameType(frame) \in {"done", "error"}
\* the frames after init and before the terminal frame
Body(q) ==
    IF q.closed THEN SubSeq(q.frames, 2, Len(q.frames) - 1)
    ELSE SubSeq(q.frames, 2, Len(q.frames))
FrameTypes(frames) == [k \in 1..Len(frames) |-> FrameType(frames[k])]

GenerationEvents == {ResponseStarted, ResponseDone} \cup {TextDelta(d) : d \in Deltas}
OnlyGeneration(feed) == \A k \in 1..Len(feed) : feed[k] \in GenerationEvents
IsDelta(event) == event \in {TextDelta(d) : d \in Deltas}

\* the frame the wire protocol gives a generation event
GenerationFrame(event) ==
    IF event = ResponseStarted THEN [type |-> "started"]
    ELSE IF event = ResponseDone THEN [type |-> "stopped"]
    ELSE [type |-> "text", content |-> event.data.delta]

RECURSIVE ConcatDeltas(_)
ConcatDeltas(feed) ==
    IF feed = <<>> THEN ""
    ELSE (IF IsDelta(Head(feed)) THEN Head(feed).data.delta ELSE "")
             \o ConcatDeltas(Tail(feed))

\* C11: a feed of response_started, output_text_delta and response_done events
\* gives one frame per event, in the order of the events (started, text with
\* the delta, stopped), and the accumulated text is the concatenation of the
\* deltas in arrival order
C11_GenerationFeedTranslates ==
    \A r \in Streams :
        LET q == req[r]
        IN OnlyGeneration(q.feed) =>
              /\ Len(Body(q)) = Len(q.feed)
              /\ \A k \in 1..Len(q.feed) :
                    JsonParse(Body(q)[k]) = GenerationFrame(q.feed[k])
              /\ q.fullOutput = ConcatDeltas(q.feed)

C11_Witness ==
    /\ req[1].feed = <<ResponseStarted, TextDelta("Hi"), TextDelta(" there"), ResponseDone>>
    /\ FrameTypes(req[1].frames) = <<"init", "started", "text", "text", "stopped", "done">>
    /\ req[1].fullOutput = "Hi there"

\* a frame a raw event may have caused, by the wire protocol
Causes(event, data) ==
    CASE event.type = "agent_updated_stream_event" ->
            data = [type |-> "agent_update", agent |-> [name |-> event.agent.name]]
      [] event.type = "raw_model_stream_event" ->
            /\ event \in GenerationEvents
            /\ data = GenerationFrame(event)
      [] event.type = "run_item_stream_event" ->
            \/ event.name = "tool_called" /\ data.type = "tool_call"
            \/ event.name \in {"handoff_requested", "handoff_occurred"}
                  /\ data.type = "handoff"
      [] OTHER -> FALSE

\* frames is an image of feed that keeps the order: each frame is caused by
\* an event of its own, later than the event of the frame before it
RECURSIVE IsImage(_, _)
IsImage(frames, feed) ==
    IF frames = <<>> THEN TRUE
    ELSE IF feed = <<>> THEN FALSE
    ELSE \/ Causes(Head(feed), JsonParse(Head(frames))) /\ IsImage(Tail(frames), Tail(feed))
         \/ IsImage(frames, Tail(feed))

\* C12: the frames of a run are an order-preserving image of its raw feed
\* across the three event families, each raw event gives at most one frame,
\* and an event of an unrecognised kind gives no frame
C12_FramesAreOrderedImage ==
    \A r \in Streams : IsImage(Body(req[r]), req[r].feed)

\* an unknown event between events of the three families: the run completes
\* and only the known events have frames
C12_Witness ==
    /\ req[1].feed = <<ResponseStarted, FutureEvent, AgentUpdated("Bravo"), ToolCalled>>
    /\ FrameTypes(req[1].frames) = <<"init", "started", "agent_update", "tool_call", "done">>

-----------------------------------------------------------------------------
(* The lifecycle of a chat turn *)

\* the frames of a streamed turn, in every state: nothing before the stream
\* is opened; init with the conversation id first, once, and in place when
\* run is called; no terminal frame while the channel is open; one terminal
\* frame, the last, when it is closed
C13_TurnShape ==
    \A r \in Requests :
        LET q == req[r]
        IN q.kind = "stream" =>
             /\ q.ran => q.opened
             /\ ~q.opened => q.frames = <<>> /\ ~q.closed
             /\ q.opened =>
                  /\ Len(q.frames) >= 1
                  /\ JsonParse(q.frames[1]) =
                        [type |-> "init", conversation_id |-> q.conversationId]
                  /\ \A k \in 1..Len(Body(q)) :
                        /\ ~IsTerminal(Body(q)[k])
                        /\ FrameType(Body(q)[k]) # "init"
                  /\ q.closed <=> q.pc = "done"
                  /\ q.closed => Len(q.frames) >= 2 /\ IsTerminal(q.frames[Len(q.frames)])

\* a closed channel carries no further frame
C13_NothingAfterClose ==
    \A r \in Requests :
        req[r].closed =>
            \/ req'[r].frames = req[r].frames /\ req'[r].closed
            \/ req'[r] = NoRequest

\* C13: a streamed turn goes Idle, Initialized, Running, Completed or
\* Errored: one init frame with the conversation id first and before the run
\* starts, then sub-event frames, then one terminal frame (done or error,
\* never both), then the channel is closed and nothing more is emitted
C13_StreamedTurnLifecycle == []C13_TurnShape /\ [][C13_NothingAfterClose]_vars

C13_Witness ==
    /\ req[1].closed
    /\ FrameTypes(req[1].frames) = <<"init", "text", "agent_update", "error">>

-----------------------------------------------------------------------------
(* Frames the wire protocol promises *)

\* C14: done and stopped terminate the frame sequence: no frame follows a
\* stopped frame and no frame follows a done frame
C14_StoppedAndDoneAreLast ==
    \A r \in Streams :
        \A k \in 1..(Len(req[r].frames) - 1) :
            FrameType(req[r].frames[k]) \notin {"stopped", "done"}

CountEvents(feed, event) == Cardinality({k \in 1..Len(feed) : feed[k] = event})
CountFrames(frames, data) ==
    Cardinality({k \in 1..Len(frames) : JsonParse(frames[k]) = data})
\* the frames that report a completed handoff to the agent called name
CompletedFrames(frames, name) ==
    {k \in 1..Len(frames) :
        /\ FrameType(frames[k]) \in {"handoff", "handoff_completed"}
        /\ JsonParse(frames[k]).name = name}

\* C15: each handoff-requested run item gives exactly one handoff frame
\* naming the target, and each handoff-occurred run item gives exactly one
\* handoff-completed frame naming the target agent
C15_HandoffFrames ==
    \A r \in Streams :
        LET q == req[r]
        IN /\ CountFrames(q.frames, [type |-> "handoff", name |-> HandoffCall.name])
                 = CountEvents(q.feed, HandoffRequested)
           /\ Cardinality(CompletedFrames(q.frames, "Bravo"))
                 = CountEvents(q.feed, HandoffOccurred)

-----------------------------------------------------------------------------
(* What a chat turn leaves in the store *)

Errored(q) ==
    \/ q.kind = "stream" /\ q.closed /\ FrameType(q.frames[Len(q.frames)]) = "error"
    \/ q.kind = "plain" /\ q.pc = "done" /\ q.response.status = 500 /\ q.stage = "run"
Completed(q) ==
    \/ q.kind = "stream" /\ q.closed /\ FrameType(q.frames[Len(q.frames)]) = "done"
    \/ q.kind = "plain" /\ q.pc = "done" /\ q.response.status = 200

\* the rows of the conversation of the turn that the turn added
NewRows(q) ==
    {m \in messages : m \notin q.before.messages /\ m.conversation_id = q.conversationId}
NewAssistantRows(q) == {m \in NewRows(q) : m.role = "assistant"}

\* the agent in control at the end of the run: the one of the last
\* agent-swap notification, the root agent if there was none
SwapsOf(feed) == {k \in 1..Len(feed) : feed[k].type = "agent_updated_stream_event"}
LastAgentName(q) ==
    IF SwapsOf(q.feed) = {} THEN q.agentConfig.name
    ELSE q.feed[CHOOSE k \in SwapsOf(q.feed) : \A j \in SwapsOf(q.feed) : j <= k].agent.name
LastAgentId(q) ==
    (CHOOSE a \in agents : a.user_id = q.user /\ a.name = LastAgentName(q)).id

\* C16: when a run completes, its assistant text is persisted as exactly one
\* assistant item, attributed to the agent that last held control
C16_OutputAttributedToLastAgent ==
    \A r \in Requests :
        LET q == req[r]
        IN (Completed(q) /\ ConcatDeltas(q.feed) # "") =>
              /\ Cardinality(NewAssistantRows(q)) = 1
              /\ \A m \in NewAssistantRows(q) : m.agent_id = LastAgentId(q)

\* C17: if the run of a chat turn fails before any output was produced,
\* nothing is persisted: the items of the conversation after the failed turn
\* are its items before the turn, in both chat operations
C17_FailedRunPersistsNothing ==
    \A r \in Requests :
        LET q == req[r]
        IN (q.ran /\ Errored(q) /\ q.feed = <<>>) =>
              listMessages(q.conversationId)
                  = listMessagesIn(q.before.messages, q.conversationId)

\* C18: a request that ends in a validation error or a build-time error is
\* answered with an error response before any stream is opened and leaves no
\* partial state: no conversation row and no message
C18_EarlyErrorLeavesNothing ==
    \A r \in Requests :
        LET q == req[r]
        IN (q.pc = "done" /\ q.stage \in {"validation", "config", "build"}) =>
              /\ ~q.opened
              /\ q.response.status >= 400
              /\ DOMAIN conversations = q.before.conversations
              /\ messages = q.before.messages

\* the request names a conversation that is missing or is another user's
NamesForeignConversation(q) ==
    /\ q.pc # "idle"
    /\ q.conversation_id # 0
    /\ \/ q.conversation_id \notin DOMAIN conversations
       \/ conversations[q.conversation_id].user_id # q.user

\* C19: conversation ownership is checked before any build or run: for a
\* request naming a conversation that does not exist or is not the user's,
\* no agent is built, no run is started and no item of that conversation is
\* read or appended
C19_OwnershipBeforeBuild ==
    \A r \in Requests :
        LET q == req[r]
        IN NamesForeignConversation(q) =>
              /\ ~q.built /\ ~q.ran /\ ~q.read
              /\ {m \in messages : m.conversation_id = q.conversation_id}
                    = {m \in q.before.messages : m.conversation_id = q.conversation_id}

\* user 1 names conversation 2, which holds messages of user 2, and is
\* answered 404
C19_Witness ==
    /\ req[1].pc = "done" /\ req[1].user = 1 /\ req[1].conversation_id = 2
    /\ req[1].response.status = 404
    /\ \E m \in messages : m.conversation_id = 2

-----------------------------------------------------------------------------
(* Two requests in flight *)

\* C20: concurrent chat requests share no mutable state but the stored rows:
\* the model-provider credential in effect throughout the run of a user's
\* request is that user's own
C20_RunUsesOwnCredential ==
    \A r \in Requests : req[r].keysSeen \subseteq {ApiKeyOf(req[r].user)}

-----------------------------------------------------------------------------
(* Concurrent turns on one conversation *)

Popped(t) == turn[t].op = "popItem" /\ turn[t].pc = "settled" /\ turn[t].deleted # <<>>

\* C21: under any interleaving of the addItems and popItem calls of
\* concurrent turns on one conversation, the row a popItem deletes is the
\* most recent row of the conversation at the moment of the deletion.
C21_PopDeletesMostRecent ==
    \A t \in Turns : Popped(t) => turn[t].deleted = turn[t].latest

\* a popItem has deleted the row it listed while no other call ran in between
C21_Witness ==
    \E t \in Turns : Popped(t) /\ turn[t].deleted = turn[t].latest

\* the positions of journal whose row the list still holds, in journal order
Surviving(rows) == SelectSeq(journal, LAMBDA id : \E k \in 1..Len(rows) : rows[k].id = id)

\* the items of an addItems call whose rows the list still holds, in the
\* order the call was given them
GivenOrder(c, rows) ==
    LET kept == SelectSeq([k \in 1..Len(c.ids) |-> k],
                          LAMBDA k : \E j \in 1..Len(rows) : rows[j].id = c.ids[k])
    IN [n \in 1..Len(kept) |-> c.items[kept[n]]]

\* the items the rows of the list hold that the call inserted, in list order
ListedOrder(c, rows) ==
    LET mine == SelectSeq(rows, LAMBDA m : \E k \in 1..Len(c.ids) : c.ids[k] = m.id)
    IN [n \in 1..Len(mine) |-> messageToAgentInputItem(mine[n]).item]

Interleaved ==
    \E t \in Turns, u \in Turns :
        /\ t # u /\ turn[t].op = "addItems" /\ turn[u].op = "addItems"
        /\ Len(turn[t].ids) = 2
        /\ turn[u].ids # <<>>
        /\ turn[t].ids[1] < turn[u].ids[1] /\ turn[u].ids[1] < turn[t].ids[2]

-----------------------------------------------------------------------------
(* The tools of a built agent *)

\* the agent a Return step makes: pushed on the caller's handoffs, or the
\* value of createAgent
MadeAgent ==
    IF Len(stack) > 1
    THEN LET h == stack'[Len(stack) - 1].handoffs IN h[Len(h)]
    ELSE result'.agent[1]

\* the references of the frame that have an entry in the registry it read
ResolvingRefs(frame) ==
    SelectSeq(frame.mcpTools,
              LAMBDA id : \E k \in 1..Len(frame.userMcpTools) : frame.userMcpTools[k].id = id)

ServerName(frame, id) ==
    LET k == CHOOSE j \in 1..Len(frame.userMcpTools) : frame.userMcpTools[j].id = id
    IN frame.userMcpTools[k].name

\* the built-in capability tools first, then one binding per resolving
\* reference, in stored order
ToolsInOrder(frame) ==
    (IF "internet_search" \in frame.builtInTools
     THEN <<[type |-> "web_search", serverLabel |-> ""]>> ELSE <<>>)
    \o [k \in 1..Len(ResolvingRefs(frame)) |->
            [type |-> "hosted_mcp", serverLabel |-> ServerName(frame, ResolvingRefs(frame)[k])]]

C23_ToolsOfMadeAgent == Return => MadeAgent.tools = ToolsInOrder(Top)

\* a build fails only when its root does not resolve for the caller
C23_OnlyRootFails ==
    (BuildDone /\ result.status = "error") =>
        \A a \in agents : ~(a.slug = rootSlug /\ a.user_id = context)

\* C23: an MCP reference of an agent with no entry in the registry the build
\* read is skipped and never fails the build; the tools of every agent made
\* are the built-in capability tools first, then one binding for exactly
\* each reference that resolves, in stored order.
C23_MissingServerSkipped == []C23_OnlyRootFails /\ [][C23_ToolsOfMadeAgent]_vars

\* a build has finished whose root had two references and web search, one
\* reference without a registry entry: it made the two other tools
C23_Witness ==
    /\ BuildOk
    /\ \E k \in 1..Len(skipped) : skipped[k] = [slug |-> rootSlug, error |-> "McpServerNotFound"]
    /\ Len(Root.tools) = 2
    /\ Root.tools[1].type = "web_search" /\ Root.tools[2].type = "hosted_mcp"

-----------------------------------------------------------------------------
(* A build against the stored configuration *)

\* an agent tree without the identities of its objects
RECURSIVE Shape(_)
Shape(ts) ==
    [k \in 1..Len(ts) |->
        [slug |-> ts[k].slug, name |-> ts[k].name, owner |-> ts[k].owner,
         tools |-> ts[k].tools, handoffs |-> Shape(ts[k].handoffs)]]

\* the tools the stored rows of the agent give, for the registry of userId
StoredTools(userId, agentId) ==
    LET refs == SelectSeq(agent_mcp_tools[agentId],
                          LAMBDA id : id \in mcp_servers /\
                                      \E srv \in McpServers : srv.id = id /\ srv.user_id = userId)
    IN (IF "internet_search" \in agent_built_in_tools[agentId]
        THEN <<[type |-> "web_search", serverLabel |-> ""]>> ELSE <<>>)
       \o [k \in 1..Len(refs) |->
              [type |-> "hosted_mcp",
               serverLabel |-> (CHOOSE srv \in McpServers : srv.id = refs[k]).name]]

\* the trees the stored rows give for the targets ts[1..], under the slugs
\* `above` of the chain that leads to them
RECURSIVE StoredTrees(_, _, _)
StoredTrees(userId, ts, above) ==
    IF ts = <<>> THEN <<>>
    ELSE LET a == Head(ts)
             rest == StoredTrees(userId, Tail(ts), above)
         IN IF a.slug \in above \/ a.user_id # userId THEN rest
            ELSE << [slug |-> a.slug, name |-> a.name, owner |-> a.user_id,
                     tools |-> StoredTools(userId, a.id),
                     handoffs |-> StoredTrees(userId, listHandoffs(a.id),
                                              above \cup {a.slug})] >> \o rest

C24_ReflectsStore ==
    /\ BuildOk =>
          Shape(result.agent) =
              StoredTrees(context, <<CHOOSE a \in agents : a.slug = rootSlug /\ a.user_id = context>>, {})
    /\ phase = "idle" => (result.agent = <<>> /\ stack = <<>>)

\* a step of a build: createAgent is called, or an activation goes on
C24_ReadsOnly ==
    (phase = "building" \/ phase' = "building") => UNCHANGED <<handoffs, toolVars>>

\* C24: a build only reads: no step of a build, successful or failed,
\* changes the agent store or the registry, nothing built is kept once the
\* turn is over, and a finished build is the tree the stored rows of that
\* moment give, whatever edits of tools or handoffs came before it.
C24_BuildOnlyReads == []C24_ReflectsStore /\ [][C24_ReadsOnly]_vars

\* a build of Alpha has finished after its handoff was removed and two tools
\* were given to it
C24_Witness ==
    /\ BuildOk /\ rootSlug = "a" /\ context = 1
    /\ Len(Root.tools) = 2 /\ Root.handoffs = <<>>

-----------------------------------------------------------------------------
(* The handoff edges *)

C25_NoSelfHandoff == \A e \in handoffs : e[1] # e[2]

\* a step that changes the edges or answers without an error is the step of
\* no add-handoff request whose target is the agent itself
C25_SelfTargetRejected ==
    (handoffs' # handoffs \/ result'.status # "error") =>
        \A u \in Users, s \in Slugs : ~AddHandoff(u, s, s)

\* C25: after any sequence of add-handoff and remove-handoff requests no
\* agent is its own handoff target: an add-handoff request whose target is
\* the agent itself is answered with an error and leaves the edges as they
\* were.
C25_NeverOwnTarget == []C25_NoSelfHandoff /\ [][C25_SelfTargetRejected]_vars

\* with handoff edges stored, an agent has asked for itself as a target and
\* was refused
C25_Witness ==
    /\ result.op = "addHandoff" /\ result.error = "Cannot handoff to self"
    /\ handoffs # {}

-----------------------------------------------------------------------------
(* Chains of the built tree *)

\* no tree of ts, nor any tree below it, has a slug of `above` or a slug
\* already met on its own chain
RECURSIVE ChainsFree(_, _)
ChainsFree(ts, above) ==
    \A k \in 1..Len(ts) :
        /\ ts[k].slug \notin above
        /\ ChainsFree(ts[k].handoffs, above \cup {ts[k].slug})

RECURSIVE Depth(_)
Depth(ts) ==
    IF ts = <<>> THEN 0
    ELSE LET below == {1 + Depth(ts[k].handoffs) : k \in 1..Len(ts)}
         IN CHOOSE d \in below : \A e \in below : d >= e

\* C26: in every agent tree a build returns, for any stored handoff graph,
\* no slug appears twice on a path from the root to a descendant.
C26_ChainsFreeOfRepeats == BuildOk => ChainsFree(result.agent, {})

\* a build has returned a tree three agents deep whose root lies on a
\* stored cycle
C26_Witness ==
    /\ BuildOk /\ Depth(result.agent) >= 3
    /\ RootOnOwnChain
    /\ ChainsFree(result.agent, {})

-----------------------------------------------------------------------------
(* Failures while a handoff target is resolved *)

SlugsOf(ts) == [k \in 1..Len(ts) |-> ts[k].slug]

Position(seq, x) == CHOOSE k \in 1..Len(seq) : seq[k] = x

\* a keeps the order of b and has nothing that b has not
InOrderOf(a, b) ==
    /\ \A i \in 1..Len(a) : \E k \in 1..Len(b) : b[k] = a[i]
    /\ \A i \in 1..Len(a), j \in 1..Len(a) : i < j => Position(b, a[i]) < Position(b, a[j])

StoredTargets(node) ==
    SlugsOf(listHandoffs((CHOOSE a \in agents : a.slug = node.slug /\ a.user_id = node.owner).id))

\* every agent of the trees lists its targets in stored order
RECURSIVE TargetsInStoredOrder(_)
TargetsInStoredOrder(ts) ==
    \A k \in 1..Len(ts) :
        /\ InOrderOf(SlugsOf(ts[k].handoffs), StoredTargets(ts[k]))
        /\ TargetsInStoredOrder(ts[k].handoffs)

\* the stored targets of all agents of the trees
RECURSIVE TargetCount(_)
TargetCount(ts) ==
    IF ts = <<>> THEN 0
    ELSE Len(StoredTargets(Head(ts))) + TargetCount(Head(ts).handoffs) + TargetCount(Tail(ts))

AbandonedBranches ==
    Cardinality({k \in 1..Len(skipped) : skipped[k].error \in {"Circular", "NotFound", "Unauthorized", "StoreError"}})

\* C27: a failure while a handoff target is resolved (a cycle, a target that
\* does not resolve, a store read that fails in that branch) abandons that
\* branch alone: the build finishes, every agent of the tree lists, in stored
\* order, exactly the targets that did not fail, and a build fails only when
\* the failure is that of the root activation.
C27_FailureAbandonsOneBranch ==
    /\ BuildOk =>
          /\ TargetsInStoredOrder(result.agent)
          /\ TargetCount(result.agent) = NodeCount(result.agent) - 1 + AbandonedBranches
    /\ (BuildDone /\ result.status = "error") => (reads = <<rootSlug>> /\ skipped = <<>>)

\* Alpha hands off to Bravo and Charlie; a store read failed while Bravo was
\* resolved, and the build returned Alpha with Charlie alone
C27_Witness ==
    /\ BuildOk /\ rootSlug = "a" /\ context = 1
    /\ StoredTargets(Root) = <<"c", "b">>
    /\ SlugsOf(Root.handoffs) = <<"b">>
    /\ \E k \in 1..Len(skipped) : skipped[k] = [slug |-> "c", error |-> "StoreError"]

-----------------------------------------------------------------------------
(* C28: popLast is all-or-nothing on error: when popItem fails because the  *)
(* most recent row has no structured payload, the rows of the session are   *)
(* the rows it held before the call.                                        *)
C28_FailedPopChangesNothing ==
    (lastOp.op = "popItem" /\ lastOp.status = "error")
        => listMessages(conversationId) = lastOp.before

-----------------------------------------------------------------------------
(* The agent a conversation is bound to *)

\* the request names a stored conversation whose agent_id is not the id of
\* the agent its slug resolved to
NamesConversationOfOtherAgent(q) ==
    /\ q.pc # "idle"
    /\ q.agentConfig # NoAgent
    /\ q.conversation_id \in q.before.conversations
    /\ conversations[q.conversation_id].agent_id # q.agentConfig.id

\* C29: a chat turn that names an existing conversation runs only with the
\* agent the conversation is bound to: a turn whose slug resolves to another
\* agent starts no run and appends nothing to that conversation.
C29_TurnRunsWithBoundAgent ==
    \A r \in Requests :
        LET q == req[r]
        IN NamesConversationOfOtherAgent(q) =>
              /\ ~q.ran
              /\ {m \in messages : m.conversation_id = q.conversation_id}
                    = {m \in q.before.messages : m.conversation_id = q.conversation_id}

-----------------------------------------------------------------------------
(* The reader of the stream *)

Parsed(frames) == [k \in 1..Len(frames) |-> JsonParse(frames[k])]

\* C30: the reader hands every frame the server sent to its callback exactly
\* once and in server order, however the bytes are cut into network reads:
\* a read may end inside a frame and may carry several frames.
C30_EveryFrameGivenOnce ==
    reader.pc \in {"resolved", "rejected"} => reader.given = Parsed(reader.sent)

====
